---- MODULE Spec2Model ----
(***************************************************************************)
(* The PlaceOrder workflow of the order-taking bounded context:            *)
(* validateOrder -> priceOrder -> acknowledgeOrder -> createEvents, with   *)
(* the constrained simple types every field is built from.                 *)
(*                                                                         *)
(* Representation.                                                         *)
(*  - A string is a sequence of one-character strings; the absent value    *)
(*    (undefined / null) is the one-element sequence Undefined.            *)
(*  - A number is the double the program computes with: the record         *)
(*    [neg, mant, exp] of value (-1)^neg * mant * 2^exp, where mant is     *)
(*    zero or an odd natural number of at most 53 bits, written in limbs   *)
(*    of 14 bits, the least significant first (zero is the empty           *)
(*    sequence, with exp 0).  Every operation rounds its exact result to   *)
(*    the nearest such number, a tie to the even mantissa.  The exponent   *)
(*    is not bounded: the magnitudes met are far from overflow and from    *)
(*    the subnormal numbers.                                               *)
(*  - Either is a record tagged "Right" or "Left"; a thrown exception is   *)
(*    the third tag "Throw", which every combinator passes through the way *)
(*    an exception unwinds the JavaScript stack.                           *)
(*  - A message is the sequence of the chunks the template string joins.   *)
(*    What a Left of a constructor holds is a record of its kind, "string" *)
(*    or "Error", and its message.                                         *)
(***************************************************************************)
EXTENDS Integers, Sequences, FiniteSets, TLC

VARIABLES order, pc, scope, validatedOrder, pricedOrder, calls, addressResponses, result,
          input, output, instances

vars == <<order, pc, scope, validatedOrder, pricedOrder, calls, addressResponses, result,
          input, output, instances>>

-----------------------------------------------------------------------------
(* Strings *)

Undefined == <<"undefined">>

Repeat(c, n) == [i \in 1..n |-> c]

\* `!str`
IsFalsy(str) == str = <<>> \/ str = Undefined

\* str contains sub as a contiguous substring
Contains(str, sub) ==
  \E i \in 0..(Len(str) - Len(sub)) :
    \A j \in 1..Len(sub) : str[i + j] = sub[j]

\* the characters U+2028 (line separator) and U+2029 (paragraph separator),
\* each one character of a string
LineSeparator == "U+2028"
ParagraphSeparator == "U+2029"

\* `.` of a JavaScript regular expression: any character but one of the four
\* line terminators LF, CR, U+2028 and U+2029
Dot(c) == c \notin {"\n", "\r", LineSeparator, ParagraphSeparator}

\* str.match(regex) for the four patterns the simple types use; the pattern is
\* not anchored, and its `d` is the letter d
RegexMatch(regex, str) ==
  CASE regex = ".+@.+" ->
         \E i \in 2..(Len(str) - 1) : str[i] = "@" /\ Dot(str[i - 1]) /\ Dot(str[i + 1])
    [] regex = "d{5}"  -> Contains(str, Repeat("d", 5))
    [] regex = "Wd{4}" -> Contains(str, <<"W">> \o Repeat("d", 4))
    [] regex = "Gd{3}" -> Contains(str, <<"G">> \o Repeat("d", 3))

\* code.startsWith(prefix) for a one-character prefix
StartsWith(str, c) == Len(str) >= 1 /\ str[1] = c

-----------------------------------------------------------------------------
(* Natural numbers of any size, in limbs: the exact results the operations   *)
(* of a double are rounded from.                                             *)

LimbBits == 14
Limb == 16384
MantissaBits == 53

Pow2(n) == 2^n

\* limb i of x, zero beyond its length
Digit(x, i) == IF 1 <= i /\ i <= Len(x) THEN x[i] ELSE 0

Highest(S) == CHOOSE i \in S : \A j \in S : j <= i
Lowest(S) == CHOOSE i \in S : \A j \in S : i <= j

\* x without its leading zero limbs
Trim(x) ==
  LET nz == {i \in 1..Len(x) : x[i] # 0}
  IN IF nz = {} THEN <<>> ELSE SubSeq(x, 1, Highest(nz))

\* -1, 0 or 1 as x is less than, equal to or greater than y
BigCompare(x, y) ==
  IF Len(x) # Len(y) THEN (IF Len(x) < Len(y) THEN -1 ELSE 1)
  ELSE LET d == {i \in 1..Len(x) : x[i] # y[i]}
       IN IF d = {} THEN 0 ELSE IF x[Highest(d)] < y[Highest(d)] THEN -1 ELSE 1

\* x + y: limb i takes a carry when a lower limb overflows and every limb
\* between passes the carry on
BigAdd(x, y) ==
  LET s(i) == Digit(x, i) + Digit(y, i)
      c(i) == IF \E j \in 1..(i - 1) : s(j) >= Limb /\ \A k \in (j + 1)..(i - 1) : s(k) = Limb - 1
              THEN 1 ELSE 0
  IN Trim([i \in 1..((IF Len(x) < Len(y) THEN Len(y) ELSE Len(x)) + 1) |-> (s(i) + c(i)) % Limb])

\* x - y for x >= y
BigSub(x, y) ==
  LET b(i) == IF \E j \in 1..(i - 1) :
                   Digit(x, j) < Digit(y, j) /\ \A k \in (j + 1)..(i - 1) : Digit(x, k) = Digit(y, k)
              THEN 1 ELSE 0
  IN Trim([i \in 1..Len(x) |-> (Digit(x, i) - Digit(y, i) - b(i) + Limb) % Limb])

\* x * 2^s
BigShiftLeft(x, s) ==
  LET k == s \div LimbBits
      r == s % LimbBits
  IN Trim([i \in 1..(Len(x) + k + 1) |->
             ((Digit(x, i - k) * Pow2(r)) % Limb) + (Digit(x, i - k - 1) \div Pow2(LimbBits - r))])

\* x \div 2^s
BigShiftRight(x, s) ==
  LET k == s \div LimbBits
      r == s % LimbBits
  IN IF Len(x) <= k THEN <<>>
     ELSE Trim([i \in 1..(Len(x) - k) |->
                  (Digit(x, i + k) \div Pow2(r)) + ((Digit(x, i + k + 1) % Pow2(r)) * Pow2(LimbBits - r))])

\* the number of bits of x
BitLength(x) ==
  IF x = <<>> THEN 0
  ELSE (LimbBits * (Len(x) - 1))
       + (CHOOSE b \in 1..LimbBits : Pow2(b - 1) <= x[Len(x)] /\ x[Len(x)] < Pow2(b))

\* bit n of x, bit 0 the least significant
Bit(x, n) == (Digit(x, n \div LimbBits + 1) \div Pow2(n % LimbBits)) % 2

\* the n lowest bits of x are zero
LowBitsZero(x, n) ==
  /\ \A i \in 1..(n \div LimbBits) : Digit(x, i) = 0
  /\ Digit(x, n \div LimbBits + 1) % Pow2(n % LimbBits) = 0

\* the number of zero bits below the lowest one bit of x, x not zero
TrailingZeros(x) ==
  LET i == Lowest({j \in 1..Len(x) : x[j] # 0})
  IN (LimbBits * (i - 1)) + (CHOOSE t \in 0..(LimbBits - 1) : x[i] % Pow2(t + 1) = Pow2(t))

\* x * y for x of at most four limbs (53 bits): the columns of the long
\* multiplication, each below 2^30, added limb by limb
BigMul(x, y) ==
  LET col(k) == (Digit(x, 1) * Digit(y, k)) + (Digit(x, 2) * Digit(y, k - 1))
                + (Digit(x, 3) * Digit(y, k - 2)) + (Digit(x, 4) * Digit(y, k - 3))
      n == Len(x) + Len(y)
  IN BigAdd(BigAdd([k \in 1..n |-> col(k) % Limb],
                   [k \in 1..(n + 1) |-> IF k = 1 THEN 0 ELSE (col(k - 1) \div Limb) % Limb]),
            [k \in 1..(n + 2) |-> IF k <= 2 THEN 0 ELSE col(k - 2) \div (Limb * Limb)])

\* quotient and remainder of x by d, for 1 <= d <= Limb
BigDivide(x, d) ==
  LET rem[i \in 1..(Len(x) + 1)] == IF i = Len(x) + 1 THEN 0 ELSE ((rem[i + 1] * Limb) + x[i]) % d
  IN [quot |-> Trim([i \in 1..Len(x) |-> ((rem[i + 1] * Limb) + x[i]) \div d]), rem |-> rem[1]]

\* the limbs of the natural number n
BigOf(n) == Trim(<<n % Limb, (n \div Limb) % Limb, n \div (Limb * Limb)>>)

\* the natural number of at most 31 bits that x holds
IntOf(x) == Digit(x, 1) + (Digit(x, 2) * Limb) + (Digit(x, 3) * Limb * Limb)

-----------------------------------------------------------------------------
(* Numbers: the type number of the program, a double *)

Zero == [neg |-> FALSE, mant |-> <<>>, exp |-> 0]

\* the number (-1)^neg * mant * 2^(exp + zeros), for a mantissa that ends in
\* that many zero bits
Shifted(neg, mant, exp, zeros) ==
  [neg |-> neg, mant |-> BigShiftRight(mant, zeros), exp |-> exp + zeros]

\* the number (-1)^neg * mant * 2^exp with its mantissa made odd
Canonical(neg, mant, exp) ==
  IF mant = <<>> THEN Zero ELSE Shifted(neg, mant, exp, TrailingZeros(mant))

\* dropping the s lowest bits of x rounds up: the bits dropped are more than
\* half of the last bit kept, or half of it and the last bit kept is odd
RoundsUp(x, s, inexact) ==
  /\ s > 0
  /\ Bit(x, s - 1) = 1
  /\ (~LowBitsZero(x, s - 1) \/ inexact \/ Bit(x, s) = 1)

\* x * 2^exp with the s lowest bits of x rounded away
RoundAt(neg, x, exp, inexact, s) ==
  Canonical(neg, BigAdd(BigShiftRight(x, s), IF RoundsUp(x, s, inexact) THEN <<1>> ELSE <<>>),
            exp + s)

\* the double nearest to (-1)^neg * x * 2^exp, a tie going to the even
\* mantissa; inexact: the exact value lies strictly above x * 2^exp
Round(neg, x, exp, inexact) ==
  RoundAt(neg, x, exp, inexact,
          IF BitLength(x) <= MantissaBits THEN 0 ELSE BitLength(x) - MantissaBits)

\* the quotient of a division, with 71 binary places, as a number
Quotient(neg, division) == Round(neg, division.quot, -71, division.rem # 0)

\* the number a decimal literal denotes: the double nearest to n / d, for an
\* integer n of at most 31 bits and 1 <= d <= Limb (0.05 is Ratio(5, 100))
Ratio(n, d) == Quotient(n < 0, BigDivide(BigShiftLeft(BigOf(IF n < 0 THEN -n ELSE n), 71), d))

\* the whole number n, of at most 31 bits
Num(n) == Canonical(n < 0, BigOf(IF n < 0 THEN -n ELSE n), 0)

\* qty * value
Times(qty, value) ==
  Round(qty.neg # value.neg, BigMul(qty.mant, value.mant), qty.exp + value.exp, FALSE)

\* the mantissa of a at the lower of the two exponents
Aligned(a, b) == BigShiftLeft(a.mant, IF a.exp > b.exp THEN a.exp - b.exp ELSE 0)

MinExp(a, b) == IF a.exp < b.exp THEN a.exp ELSE b.exp

\* (-1)^aneg * x + (-1)^bneg * y, in units of 2^exp
Sum(aneg, x, bneg, y, exp) ==
  Round(IF BigCompare(x, y) >= 0 THEN aneg ELSE bneg,
        IF aneg = bneg THEN BigAdd(x, y)
        ELSE IF BigCompare(x, y) >= 0 THEN BigSub(x, y) ELSE BigSub(y, x),
        exp, FALSE)

\* a + b
Plus(a, b) ==
  IF a = Zero THEN b
  ELSE IF b = Zero THEN a
  ELSE Sum(a.neg, Aligned(a, b), b.neg, Aligned(b, a), MinExp(a, b))

\* (-1)^aneg * x < (-1)^bneg * y
Below(aneg, x, bneg, y) ==
  IF aneg # bneg THEN aneg /\ (x # <<>> \/ y # <<>>)
  ELSE BigCompare(x, y) = (IF aneg THEN 1 ELSE -1)

\* a < b
Less(a, b) == Below(a.neg, Aligned(a, b), b.neg, Aligned(b, a))

FractionDigits == 4

\* x \div 2^s, rounded to the nearest integer, of at most 31 bits
Nearest(x, s) == IntOf(BigShiftRight(x, s)) + Bit(x, s - 1)

\* the magnitude of num in units of 10^-p, rounded to the nearest integer, for
\* a num that is not an integer
Scaled(num, p) == Nearest(BigMul(num.mant, BigOf(10^p)), -num.exp)

\* the numeral of units * 10^-p: the integer part, the point, p decimals
Numeral(units, p) ==
  <<ToString(units \div 10^p), ".">> \o [i \in 1..p |-> ToString((units \div 10^(p - i)) % 10)]

\* the numeral of the magnitude of num with p decimals
Fixed(num, p) == Numeral(Scaled(num, p), p)

\* `${num}`: the shortest decimal numeral that denotes num, for an integer of
\* at most 31 bits or a number of at most FractionDigits decimals
NumberToString(num) ==
  (IF num.neg THEN <<"-">> ELSE <<>>)
  \o (IF num.exp >= 0 THEN <<ToString(IntOf(BigShiftLeft(num.mant, num.exp)))>>
      ELSE Fixed(num, Lowest({q \in 1..FractionDigits :
                                Ratio(Scaled(num, q), 10^q) = [num EXCEPT !.neg = FALSE]})))

-----------------------------------------------------------------------------
(* Either, Option *)

Right(v) == [tag |-> "Right", right |-> v]
Left(e) == [tag |-> "Left", left |-> e]
Throw == [tag |-> "Throw"]

IsRight(e) == e.tag = "Right"
IsLeft(e) == e.tag = "Left"

None == [tag |-> "None"]
Some(v) == [tag |-> "Some", value |-> v]

\* a string, as the value a Left holds
TemplateString(chunks) == [kind |-> "string", message |-> chunks]

\* Error(msg): an Error object of the message
Error(msg) == [kind |-> "Error", message |-> msg]

\* errorFrom = flow(Error, E.left)
errorFrom(msg) == Left(Error(msg))

ValidationError(msg) == [kind |-> "ValidationError", message |-> msg]
PricingError(msg) == [kind |-> "PricingError", message |-> msg]

\* String(e), which the constructor of an Error applies to its argument: a
\* string is itself, an Error object its name and its message
ToStringOf(e) ==
  IF e.kind = "Error"
  THEN IF e.message = <<>> THEN <<"Error">> ELSE <<"Error: ">> \o e.message
  ELSE e.message

\* E.mapLeft((e) => new ValidationError(e)), E.mapLeft((e) => new PricingError(e))
MapLeft(e, from) ==
  IF ~IsLeft(e) THEN e
  ELSE IF from = "PricingError" THEN Left(PricingError(ToStringOf(e.left)))
  ELSE Left(ValidationError(ToStringOf(e.left)))

\* E.sequenceArray: the first Left of the array, or Right of all the values
SequenceArrayMutant(es) ==
  IF \E i \in 1..Len(es) : IsLeft(es[i])
  THEN es[CHOOSE i \in 1..Len(es) : IsLeft(es[i]) /\ \A j \in (i + 1)..Len(es) : ~IsLeft(es[j])]
  ELSE Right([i \in 1..Len(es) |-> es[i].right])

\* the values come out last to first
SequenceArrayReversed(es) ==
  IF \E i \in 1..Len(es) : IsLeft(es[i])
  THEN es[CHOOSE i \in 1..Len(es) : IsLeft(es[i]) /\ \A j \in 1..(i - 1) : ~IsLeft(es[j])]
  ELSE Right([i \in 1..Len(es) |-> es[Len(es) + 1 - i].right])

SequenceArray(es) ==
  IF \E i \in 1..Len(es) : IsLeft(es[i])
  THEN es[CHOOSE i \in 1..Len(es) : IsLeft(es[i]) /\ \A j \in 1..(i - 1) : ~IsLeft(es[j])]
  ELSE Right([i \in 1..Len(es) |-> es[i].right])

-----------------------------------------------------------------------------
(* Constrained types with the name of the field: constrained-type.ts.  The   *)
(* Left is the message, a string that starts with the name.                  *)

createString(fieldName, maxLen, str) ==
  IF IsFalsy(str) THEN Left(TemplateString(<<fieldName, " ", "must not be null or empty">>))
  ELSE IF maxLen < Len(str)
       THEN Left(TemplateString(<<fieldName, " ", "must not be more than ", ToString(maxLen),
                                  " chars">>))
       ELSE Right(str)

createStringOption(fieldName, maxLen, str) ==
  IF IsFalsy(str) THEN Right(None)
  ELSE IF maxLen < Len(str)
       THEN Left(TemplateString(<<fieldName, " ", "must not be more than ", ToString(maxLen),
                                  " chars">>))
       ELSE Right(Some(str))

createNumber(fieldName, min, max, num) ==
  IF Less(num, min) THEN Left(TemplateString(<<fieldName, " ", "must not be null or empty">>))
  ELSE IF Less(max, num)
       THEN Left(TemplateString(<<fieldName, " ", "must not be more than ">>
                                \o NumberToString(max) \o <<" chars">>))
       ELSE Right(num)

createLike(fieldName, regex, str) ==
  IF IsFalsy(str) THEN Left(TemplateString(<<fieldName, " ", "must not be null or empty">>))
  ELSE IF ~RegexMatch(regex, str)
       THEN Left(TemplateString(<<fieldName, ": ", "'">> \o str
                                \o <<"' must match the pattern '", regex, "'">>))
       ELSE Right(str)

-----------------------------------------------------------------------------
(* Constrained types as simple-types.ts calls them, with the class and the   *)
(* bound alone (ConstrainedType.createString(String50, 50)): the Left is an  *)
(* Error whose message names no field.                                       *)

\* the bound is exclusive: a string of exactly maxLen characters is refused
ConstrainedTypeCreateStringExclusive(maxLen, str) ==
  IF IsFalsy(str) THEN errorFrom(<<"must not be null or empty">>)
  ELSE IF maxLen <= Len(str)
       THEN errorFrom(<<"must not be more than ", ToString(maxLen), " chars">>)
       ELSE Right(str)

ConstrainedTypeCreateString(maxLen, str) ==
  IF IsFalsy(str) THEN errorFrom(<<"must not be null or empty">>)
  ELSE IF maxLen < Len(str)
       THEN errorFrom(<<"must not be more than ", ToString(maxLen), " chars">>)
       ELSE Right(str)

\* an empty or absent string is refused, as by createString
ConstrainedTypeCreateStringOptionRequired(maxLen, str) ==
  IF IsFalsy(str) THEN errorFrom(<<"must not be null or empty">>)
  ELSE IF maxLen < Len(str)
       THEN errorFrom(<<"must not be more than ", ToString(maxLen), " chars">>)
       ELSE Right(Some(str))

ConstrainedTypeCreateStringOption(maxLen, str) ==
  IF IsFalsy(str) THEN Right(None)
  ELSE IF maxLen < Len(str)
       THEN errorFrom(<<"must not be more than ", ToString(maxLen), " chars">>)
       ELSE Right(Some(str))

\* `${max}` prints the bound as a decimal numeral: 1000, 0.05, 0.5
ConstrainedTypeCreateNumber(min, max, num) ==
  IF Less(num, min) THEN errorFrom(<<"must not be null or empty">>)
  ELSE IF Less(max, num)
       THEN errorFrom(<<"must not be more than ">> \o NumberToString(max) \o <<" chars">>)
       ELSE Right(num)

ConstrainedTypeCreateLike(regex, str) ==
  IF IsFalsy(str) THEN errorFrom(<<"must not be null or empty">>)
  ELSE IF ~RegexMatch(regex, str)
       THEN errorFrom(<<"'">> \o str \o <<"' must match the pattern '", regex, "'">>)
       ELSE Right(str)

-----------------------------------------------------------------------------
(* Simple types: simple-types.ts *)

String50MaxLen == 50

UnitQuantityMin == Num(1)
UnitQuantityMax == Num(1000)
KilogramQuantityMin == Ratio(5, 100)
KilogramQuantityMax == Num(100)
PriceMin == Num(0)
PriceMax == Num(1000)
BillingAmountMin == Num(0)
BillingAmountMax == Num(10000)

String50Create(str) == ConstrainedTypeCreateString(String50MaxLen, str)
String50CreateOption(str) == ConstrainedTypeCreateStringOption(String50MaxLen, str)
\* any non-empty string that holds an "@" is accepted
EmailAddressCreateContains(str) ==
  IF IsFalsy(str) THEN errorFrom(<<"must not be null or empty">>)
  ELSE IF ~Contains(str, <<"@">>)
       THEN errorFrom(<<"'">> \o str \o <<"' must match the pattern '", ".+@.+", "'">>)
       ELSE Right(str)

EmailAddressCreate(str) == ConstrainedTypeCreateLike(".+@.+", str)
ZipCodeCreate(str) == ConstrainedTypeCreateLike("d{5}", str)
OrderIdCreate(str) == ConstrainedTypeCreateString(String50MaxLen, str)
OrderLineIdCreate(str) == ConstrainedTypeCreateString(String50MaxLen, str)

WidgetCode(str) == [type |-> "WidgetCode", value |-> str]
GizmoCode(str) == [type |-> "GizmoCode", value |-> str]

\* new ctor(value) on what a constrained-type helper returned
Wrapped(created, ctor) ==
  IF IsRight(created) THEN Right([type |-> ctor, value |-> created.right]) ELSE created

WidgetCodeCreate(str) == Wrapped(ConstrainedTypeCreateLike("Wd{4}", str), "WidgetCode")

GizmoCodeCreate(str) == Wrapped(ConstrainedTypeCreateLike("Gd{3}", str), "GizmoCode")

createProductCode(code) ==
  IF IsFalsy(code) THEN errorFrom(<<"must not be null or empty">>)
  ELSE IF StartsWith(code, "W") THEN WidgetCodeCreate(code)
  ELSE IF StartsWith(code, "G") THEN GizmoCodeCreate(code)
  ELSE errorFrom(<<"format not recognized '">> \o code \o <<"'">>)

UnitQuantity(num) == [type |-> "UnitQuantity", value |-> num]
KilogramQuantity(num) == [type |-> "KilogramQuantity", value |-> num]

UnitQuantityCreate(num) ==
  Wrapped(ConstrainedTypeCreateNumber(UnitQuantityMin, UnitQuantityMax, num), "UnitQuantity")

KilogramQuantityCreate(num) ==
  Wrapped(ConstrainedTypeCreateNumber(KilogramQuantityMin, KilogramQuantityMax, num),
          "KilogramQuantity")

createOrderQuantity(productCode, num) ==
  IF productCode.type = "WidgetCode"
  THEN UnitQuantityCreate(num)
  ELSE KilogramQuantityCreate(num)

\* a Price and a BillingAmount are the wrapped number
PriceCreate(num) == ConstrainedTypeCreateNumber(PriceMin, PriceMax, num)

PriceMultiply(value, qty) == PriceCreate(Times(qty, value))

BillingAmountCreate(num) == ConstrainedTypeCreateNumber(BillingAmountMin, BillingAmountMax, num)

\* NA.concatAll(N.SemigroupSum): the left fold of + over a non-empty array
RECURSIVE ConcatAllSum(_)
ConcatAllSum(values) ==
  IF Len(values) = 1 THEN values[1]
  ELSE Plus(ConcatAllSum(SubSeq(values, 1, Len(values) - 1)), values[Len(values)])

\* the sum is taken of a non-empty list only
sumPricesNonEmpty(prices) ==
  IF prices # <<>> THEN BillingAmountCreate(ConcatAllSum(prices))
  ELSE errorFrom(<<"must not be empty">>)

sumPrices(prices) ==
  BillingAmountCreate(IF prices # <<>> THEN ConcatAllSum(prices) ELSE Zero)

-----------------------------------------------------------------------------
(* The simple types as implementation.ts and implementation-without-effects  *)
(* call them: the constructor is given the name of the field first,          *)
(* Common.String50.create('FirstName'), and hands it to the helper of        *)
(* constrained-type.ts, createString('FirstName', String50, 50).             *)

\* Common.createProductCode(fieldName)
CommonCreateProductCode(fieldName, code) ==
  IF IsFalsy(code) THEN Left(TemplateString(<<fieldName, ": ", "must not be null or empty">>))
  ELSE IF StartsWith(code, "W") THEN Wrapped(createLike(fieldName, "Wd{4}", code), "WidgetCode")
  ELSE IF StartsWith(code, "G") THEN Wrapped(createLike(fieldName, "Gd{3}", code), "GizmoCode")
  ELSE Left(TemplateString(<<fieldName, ": ", "format not recognized '">> \o code \o <<"'">>))

\* Common.createOrderQuantity(fieldName, productCode)
CommonCreateOrderQuantity(fieldName, productCode, num) ==
  IF productCode.type = "WidgetCode"
  THEN Wrapped(createNumber(fieldName, UnitQuantityMin, UnitQuantityMax, num), "UnitQuantity")
  ELSE Wrapped(createNumber(fieldName, KilogramQuantityMin, KilogramQuantityMax, num),
               "KilogramQuantity")

-----------------------------------------------------------------------------
(* Collaborators.  A collaborator's behaviour in one run is a function from  *)
(* its argument to an outcome; every call made is appended to the log.       *)

\* one call of a collaborator: idx is the order line (or 1 = shipping address,
\* 2 = billing address), arg the string passed, out the outcome ("pending"
\* as long as the promise of checkAddressExists is not settled), val the price
Call(fn, idx, arg, out, val) == [fn |-> fn, idx |-> idx, arg |-> arg, out |-> out, val |-> val]

Returns(v) == [tag |-> "Return", value |-> v]

RECURSIVE Flatten(_)
Flatten(seqs) == IF seqs = <<>> THEN <<>> ELSE Head(seqs) \o Flatten(Tail(seqs))

\* A.map(f) over the lines: f is applied to every element, first to last; an
\* exception thrown by one application ends the map there
MapAll(each) ==
  LET n == Len(each)
      thrown == {i \in 1..n : each[i].res.tag = "Throw"}
      last == IF thrown = {} THEN n ELSE CHOOSE i \in thrown : \A j \in thrown : i <= j
  IN [results |-> [i \in 1..n |-> each[i].res],
      thrown |-> thrown # {},
      calls |-> Flatten([i \in 1..last |-> each[i].calls])]

-----------------------------------------------------------------------------
(* ValidateOrder step: implementation.ts *)

toCustomerInfo(unvalidatedCustomerInfo) ==
  LET firstName == MapLeft(createString("FirstName", String50MaxLen,
                                        unvalidatedCustomerInfo.FirstName), "ValidationError")
      lastName == MapLeft(createString("LastName", String50MaxLen,
                                       unvalidatedCustomerInfo.LastName), "ValidationError")
      emailAddress == MapLeft(createLike("EmailAddress", ".+@.+",
                                         unvalidatedCustomerInfo.EmailAddress), "ValidationError")
  IN IF ~IsRight(firstName) THEN firstName
     ELSE IF ~IsRight(lastName) THEN lastName
     ELSE IF ~IsRight(emailAddress) THEN emailAddress
     ELSE Right([name |-> [firstName |-> firstName.right, lastName |-> lastName.right],
                 emailAddress |-> emailAddress.right])

\* the components are taken as they come, none re-validated
toAddressUnchecked(checkedAddress) ==
  Right([AddressLine1 |-> checkedAddress.AddressLine1,
         AddressLine2 |-> IF IsFalsy(checkedAddress.AddressLine2) THEN None
                          ELSE Some(checkedAddress.AddressLine2),
         AddressLine3 |-> IF IsFalsy(checkedAddress.AddressLine3) THEN None
                          ELSE Some(checkedAddress.AddressLine3),
         AddressLine4 |-> IF IsFalsy(checkedAddress.AddressLine4) THEN None
                          ELSE Some(checkedAddress.AddressLine4),
         City |-> checkedAddress.City, ZipCode |-> checkedAddress.ZipCode])

toAddress(checkedAddress) ==
  LET addressLine1 == MapLeft(createString("AddressLine1", String50MaxLen,
                                           checkedAddress.AddressLine1), "ValidationError")
      addressLine2 == MapLeft(createStringOption("AddressLine2", String50MaxLen,
                                                 checkedAddress.AddressLine2), "ValidationError")
      addressLine3 == MapLeft(createStringOption("AddressLine3", String50MaxLen,
                                                 checkedAddress.AddressLine3), "ValidationError")
      addressLine4 == MapLeft(createStringOption("AddressLine4", String50MaxLen,
                                                 checkedAddress.AddressLine4), "ValidationError")
      city == MapLeft(createString("City", String50MaxLen, checkedAddress.City), "ValidationError")
      zipCode == MapLeft(createLike("ZipCode", "d{5}", checkedAddress.ZipCode), "ValidationError")
  IN IF ~IsRight(addressLine1) THEN addressLine1
     ELSE IF ~IsRight(addressLine2) THEN addressLine2
     ELSE IF ~IsRight(addressLine3) THEN addressLine3
     ELSE IF ~IsRight(addressLine4) THEN addressLine4
     ELSE IF ~IsRight(city) THEN city
     ELSE IF ~IsRight(zipCode) THEN zipCode
     ELSE Right([AddressLine1 |-> addressLine1.right, AddressLine2 |-> addressLine2.right,
                 AddressLine3 |-> addressLine3.right, AddressLine4 |-> addressLine4.right,
                 City |-> city.right, ZipCode |-> zipCode.right])

\* the address error is passed on as a remote-service error
toCheckedAddressRemote(response) ==
  IF response.tag = "Left"
  THEN Left([kind |-> "RemoteServiceError", message |-> <<response.left>>])
  ELSE response

\* an address the service does not confirm is taken in its normalized form
toCheckedAddressLenient(response) ==
  IF response.tag = "Left"
  THEN Right([AddressLine1 |-> <<"N">>, AddressLine2 |-> Undefined, AddressLine3 |-> Undefined,
              AddressLine4 |-> Undefined, City |-> <<"N">>, ZipCode |-> Repeat("d", 5)])
  ELSE response

\* the outcome of checkAddressExists, its error converted to a ValidationError
toCheckedAddress(response) ==
  IF response.tag = "Left"
  THEN IF response.left = "AddressNotFound"
       THEN Left(ValidationError(<<"Address not found">>))
       ELSE Left(ValidationError(<<"Address has bad format">>))
  ELSE response

toOrderId(orderId) ==
  MapLeft(createString("OrderId", String50MaxLen, orderId), "ValidationError")

toOrderLineId(orderLineId) ==
  MapLeft(createString("OrderLineId", String50MaxLen, orderLineId), "ValidationError")

\* a code that parses is accepted whatever checkProductCodeExists answers
toProductCodeUnchecked(checkProductCodeExists, idx, code) ==
  LET created == MapLeft(CommonCreateProductCode("ProductCode", code), "ValidationError")
  IN IF ~IsRight(created) THEN [res |-> created, calls |-> <<>>]
     ELSE LET out == checkProductCodeExists[code]
          IN [res |-> IF out = "throw" THEN Throw ELSE created,
              calls |-> <<[fn |-> "checkProductCodeExists", idx |-> idx, arg |-> code,
                           out |-> out, val |-> Zero]>>]

\* res: the Either (or Throw); calls: the calls of checkProductCodeExists made
toProductCode(checkProductCodeExists, idx, code) ==
  LET created == MapLeft(CommonCreateProductCode("ProductCode", code), "ValidationError")
  IN IF ~IsRight(created) THEN [res |-> created, calls |-> <<>>]
     ELSE LET out == checkProductCodeExists[code]
          IN [res |-> IF out = "throw" THEN Throw
                      ELSE IF out = "true" THEN created
                      ELSE Left(ValidationError(<<"Invalid: ">> \o created.right.value)),
              calls |-> <<Call("checkProductCodeExists", idx, code, out, Zero)>>]

toOrderQuantity(productCode, quantity) ==
  MapLeft(CommonCreateOrderQuantity("OrderQuantity", productCode, quantity), "ValidationError")

ValidatedOrderLine(orderLineId, productCode, quantity) ==
  [OrderLineId |-> orderLineId, ProductCode |-> productCode, Quantity |-> quantity]

\* the E.Do chain of toValidatedOrderLine: the first bind that is not a Right
\* is the outcome; quantity is looked at only when productCode is a Right
BindValidatedOrderLine(orderLineId, productCode, quantity) ==
  IF ~IsRight(orderLineId) THEN [res |-> orderLineId, calls |-> <<>>]
  ELSE IF ~IsRight(productCode.res) THEN productCode
  ELSE IF ~IsRight(quantity) THEN [res |-> quantity, calls |-> productCode.calls]
  ELSE [res |-> Right(ValidatedOrderLine(orderLineId.right, productCode.res.right, quantity.right)),
        calls |-> productCode.calls]

toValidatedOrderLine(checkProductCodeExists, idx, unvalidatedOrderLine) ==
  BindValidatedOrderLine(
    toOrderLineId(unvalidatedOrderLine.OrderLineId),
    toProductCode(checkProductCodeExists, idx, unvalidatedOrderLine.ProductCode),
    toOrderQuantity(
      toProductCode(checkProductCodeExists, idx, unvalidatedOrderLine.ProductCode).res.right,
      unvalidatedOrderLine.Quantity))

\* the E.Do chain of validateOrder: orderId, customerInfo, and the lines,
\* mapped one by one and then sequenced
BindOrderFields(orderId, customerInfo, mapped) ==
  LET lines == SequenceArray(mapped.results)
  IN IF ~IsRight(orderId) THEN [res |-> orderId, calls |-> <<>>]
     ELSE IF ~IsRight(customerInfo) THEN [res |-> customerInfo, calls |-> <<>>]
     ELSE IF mapped.thrown THEN [res |-> Throw, calls |-> mapped.calls]
     ELSE IF ~IsRight(lines) THEN [res |-> lines, calls |-> mapped.calls]
     ELSE [res |-> Right([orderId |-> orderId.right, customerInfo |-> customerInfo.right,
                          lines |-> lines.right]),
           calls |-> mapped.calls]

\* validateOrder up to TE.fromEither: order id, customer info and lines
validateOrderFields(checkProductCodeExists, unvalidated) ==
  BindOrderFields(
    toOrderId(unvalidated.OrderId),
    toCustomerInfo(unvalidated.CustomerInfo),
    MapAll([i \in 1..Len(unvalidated.Lines) |->
              toValidatedOrderLine(checkProductCodeExists, i, unvalidated.Lines[i])]))

ValidatedOrder(orderId, customerInfo, shippingAddress, billingAddress, lines) ==
  [OrderId |-> orderId, CustomerInfo |-> customerInfo, ShippingAddress |-> shippingAddress,
   BillingAddress |-> billingAddress, Lines |-> lines]

-----------------------------------------------------------------------------
(* PriceOrder step: implementation.ts *)

PricedOrderLine(orderLineId, productCode, quantity, linePrice) ==
  [OrderLineId |-> orderLineId, ProductCode |-> productCode, Quantity |-> quantity,
   LinePrice |-> linePrice]

\* the priced line, from what getProductPrice returned and the line price
\* computed from it; linePrice is looked at only when a price was returned
PricedLine(idx, validatedOrderLine, price, linePrice) ==
  LET call == Call("getProductPrice", idx, validatedOrderLine.ProductCode.value,
                   IF price.tag = "Throw" THEN "throw" ELSE "price",
                   IF price.tag = "Throw" THEN Zero ELSE price.value)
  IN IF price.tag = "Throw" THEN [res |-> Throw, calls |-> <<call>>]
     ELSE IF ~IsRight(linePrice) THEN [res |-> linePrice, calls |-> <<call>>]
     ELSE [res |-> Right(PricedOrderLine(validatedOrderLine.OrderLineId,
                                         validatedOrderLine.ProductCode,
                                         validatedOrderLine.Quantity,
                                         linePrice.right)),
           calls |-> <<call>>]

toPricedOrderLine(getProductPrice, idx, validatedOrderLine) ==
  PricedLine(idx, validatedOrderLine,
             getProductPrice[validatedOrderLine.ProductCode.value],
             MapLeft(PriceMultiply(getProductPrice[validatedOrderLine.ProductCode.value].value,
                                   validatedOrderLine.Quantity.value),
                     "PricingError"))

PricedOrder(orderId, customerInfo, shippingAddress, billingAddress, amountToBill, lines) ==
  [OrderId |-> orderId, CustomerInfo |-> customerInfo, ShippingAddress |-> shippingAddress,
   BillingAddress |-> billingAddress, AmountToBill |-> amountToBill, Lines |-> lines]

\* the priced order of the header fields given, from the lines and their sum;
\* amountToBill is looked at only when lines is a Right
BillOrder(orderId, customerInfo, shippingAddress, billingAddress, made, lines, amountToBill) ==
  IF ~IsRight(lines) THEN [res |-> lines, calls |-> made]
  ELSE IF ~IsRight(amountToBill) THEN [res |-> amountToBill, calls |-> made]
  ELSE [res |-> Right(PricedOrder(orderId, customerInfo, shippingAddress, billingAddress,
                                  amountToBill.right, lines.right)),
        calls |-> made]

\* the lines sequenced, then their prices summed
SumLines(orderId, customerInfo, shippingAddress, billingAddress, made, lines) ==
  BillOrder(orderId, customerInfo, shippingAddress, billingAddress, made, lines,
            MapLeft(sumPrices([i \in 1..Len(lines.right) |-> lines.right[i].LinePrice]),
                    "PricingError"))

\* the lines priced one by one: an exception ends priceOrder
PriceLines(orderId, customerInfo, shippingAddress, billingAddress, mapped) ==
  IF mapped.thrown THEN [res |-> Throw, calls |-> mapped.calls]
  ELSE SumLines(orderId, customerInfo, shippingAddress, billingAddress, mapped.calls,
                SequenceArray(mapped.results))

\* the priced order is shipped to the billing address
priceOrderShipToBilling(getProductPrice, validated) ==
  PriceLines(validated.OrderId, validated.CustomerInfo,
             validated.BillingAddress, validated.BillingAddress,
             MapAll([i \in 1..Len(validated.Lines) |->
                       toPricedOrderLine(getProductPrice, i, validated.Lines[i])]))

priceOrder(getProductPrice, validated) ==
  PriceLines(validated.OrderId, validated.CustomerInfo,
             validated.ShippingAddress, validated.BillingAddress,
             MapAll([i \in 1..Len(validated.Lines) |->
                       toPricedOrderLine(getProductPrice, i, validated.Lines[i])]))

-----------------------------------------------------------------------------
(* AcknowledgeOrder step and the events: implementation.common.ts *)

OrderAcknowledgmentSent(orderId, emailAddress) ==
  [tag |-> "OrderAcknowledgmentSent", OrderId |-> orderId, EmailAddress |-> emailAddress]

OrderPlaced(orderId, customerInfo, shippingAddress, billingAddress, amountToBill, lines) ==
  [tag |-> "OrderPlaced", OrderId |-> orderId, CustomerInfo |-> customerInfo,
   ShippingAddress |-> shippingAddress, BillingAddress |-> billingAddress,
   AmountToBill |-> amountToBill, Lines |-> lines]

BillableOrderPlaced(orderId, billingAddress, amountToBill) ==
  [tag |-> "BillableOrderPlaced", OrderId |-> orderId, BillingAddress |-> billingAddress,
   AmountToBill |-> amountToBill]

\* the event is made whatever the sender reports
acknowledgeOrderAlways(createAcknowledgmentLetter, sendAcknowledgment, priced) ==
  LET letter == [fn |-> "createAcknowledgmentLetter", idx |-> 0, arg |-> priced.OrderId,
                 out |-> createAcknowledgmentLetter, val |-> Zero]
      send == [fn |-> "sendAcknowledgment", idx |-> 0, arg |-> priced.CustomerInfo.emailAddress,
               out |-> sendAcknowledgment, val |-> Zero]
  IN IF createAcknowledgmentLetter = "throw" THEN [res |-> Throw, calls |-> <<letter>>]
     ELSE IF sendAcknowledgment = "throw" THEN [res |-> Throw, calls |-> <<letter, send>>]
     ELSE [res |-> Some([tag |-> "OrderAcknowledgmentSent", OrderId |-> priced.OrderId,
                         EmailAddress |-> priced.CustomerInfo.emailAddress]),
           calls |-> <<letter, send>>]

\* the match has no NotSent case, so a failed delivery raises
acknowledgeOrderNoNotSent(createAcknowledgmentLetter, sendAcknowledgment, priced) ==
  LET letter == [fn |-> "createAcknowledgmentLetter", idx |-> 0, arg |-> priced.OrderId,
                 out |-> createAcknowledgmentLetter, val |-> Zero]
      send == [fn |-> "sendAcknowledgment", idx |-> 0, arg |-> priced.CustomerInfo.emailAddress,
               out |-> sendAcknowledgment, val |-> Zero]
  IN IF createAcknowledgmentLetter = "throw" THEN [res |-> Throw, calls |-> <<letter>>]
     ELSE IF sendAcknowledgment = "Sent"
          THEN [res |-> Some([tag |-> "OrderAcknowledgmentSent", OrderId |-> priced.OrderId,
                              EmailAddress |-> priced.CustomerInfo.emailAddress]),
                calls |-> <<letter, send>>]
          ELSE [res |-> Throw, calls |-> <<letter, send>>]

\* the acknowledgment is sent before its letter is made
acknowledgeOrderSendFirst(createAcknowledgmentLetter, sendAcknowledgment, priced) ==
  LET letter == [fn |-> "createAcknowledgmentLetter", idx |-> 0, arg |-> priced.OrderId,
                 out |-> createAcknowledgmentLetter, val |-> Zero]
      send == [fn |-> "sendAcknowledgment", idx |-> 0, arg |-> priced.CustomerInfo.emailAddress,
               out |-> sendAcknowledgment, val |-> Zero]
  IN IF sendAcknowledgment = "throw" THEN [res |-> Throw, calls |-> <<send>>]
     ELSE IF createAcknowledgmentLetter = "throw" THEN [res |-> Throw, calls |-> <<send, letter>>]
     ELSE IF sendAcknowledgment = "Sent"
          THEN [res |-> Some([tag |-> "OrderAcknowledgmentSent", OrderId |-> priced.OrderId,
                              EmailAddress |-> priced.CustomerInfo.emailAddress]),
                calls |-> <<send, letter>>]
          ELSE [res |-> None, calls |-> <<send, letter>>]

\* a delivery reported NotSent is tried a second time
acknowledgeOrderSendTwice(createAcknowledgmentLetter, sendAcknowledgment, priced) ==
  LET letter == Call("createAcknowledgmentLetter", 0, priced.OrderId, createAcknowledgmentLetter, Zero)
      send == Call("sendAcknowledgment", 0, priced.CustomerInfo.emailAddress, sendAcknowledgment, Zero)
  IN IF createAcknowledgmentLetter = "throw" THEN [res |-> Throw, calls |-> <<letter>>]
     ELSE IF sendAcknowledgment = "throw" THEN [res |-> Throw, calls |-> <<letter, send>>]
     ELSE IF sendAcknowledgment = "Sent"
          THEN [res |-> Some(OrderAcknowledgmentSent(priced.OrderId, priced.CustomerInfo.emailAddress)),
                calls |-> <<letter, send>>]
          ELSE [res |-> None, calls |-> <<letter, send, send>>]

\* res: Some(event), None, or Throw; createAcknowledgmentLetter is "letter" or
\* "throw", sendAcknowledgment is "Sent", "NotSent" or "throw"
acknowledgeOrder(createAcknowledgmentLetter, sendAcknowledgment, priced) ==
  LET letter == Call("createAcknowledgmentLetter", 0, priced.OrderId, createAcknowledgmentLetter, Zero)
      send == Call("sendAcknowledgment", 0, priced.CustomerInfo.emailAddress, sendAcknowledgment, Zero)
  IN IF createAcknowledgmentLetter = "throw" THEN [res |-> Throw, calls |-> <<letter>>]
     ELSE IF sendAcknowledgment = "throw" THEN [res |-> Throw, calls |-> <<letter, send>>]
     ELSE IF sendAcknowledgment = "Sent"
          THEN [res |-> Some(OrderAcknowledgmentSent(priced.OrderId, priced.CustomerInfo.emailAddress)),
                calls |-> <<letter, send>>]
          ELSE [res |-> None, calls |-> <<letter, send>>]

\* the two addresses change places
createOrderPlacedEventSwapped(i) ==
  OrderPlaced(i.OrderId, i.CustomerInfo, i.BillingAddress, i.ShippingAddress, i.AmountToBill, i.Lines)

createOrderPlacedEvent(i) ==
  OrderPlaced(i.OrderId, i.CustomerInfo, i.ShippingAddress, i.BillingAddress, i.AmountToBill, i.Lines)

createBillingEventMutant(placedOrder) ==
  IF ~Less(placedOrder.AmountToBill, Zero)
  THEN Some(BillableOrderPlaced(placedOrder.OrderId, placedOrder.BillingAddress, placedOrder.AmountToBill))
  ELSE None

createBillingEvent(placedOrder) ==
  IF Less(Zero, placedOrder.AmountToBill)
  THEN Some(BillableOrderPlaced(placedOrder.OrderId, placedOrder.BillingAddress, placedOrder.AmountToBill))
  ELSE None

listOfOption(opt) == IF opt.tag = "None" THEN <<>> ELSE <<opt.value>>

createEventsMutant(priced, acknowledgmentEventOpt) ==
  <<createOrderPlacedEvent(priced)>>
  \o listOfOption(acknowledgmentEventOpt)
  \o listOfOption(createBillingEvent(priced))

createEvents(priced, acknowledgmentEventOpt) ==
  listOfOption(acknowledgmentEventOpt)
  \o <<createOrderPlacedEvent(priced)>>
  \o listOfOption(createBillingEvent(priced))

placeOrderEvents(createOrderAcknowledgmentLetter, sendOrderAcknowledgment, priced) ==
  LET ackOpt == acknowledgeOrder(createOrderAcknowledgmentLetter, sendOrderAcknowledgment, priced)
  IN [res |-> IF ackOpt.res.tag = "Throw" THEN Throw ELSE Right(createEvents(priced, ackOpt.res)),
      calls |-> ackOpt.calls]

-----------------------------------------------------------------------------
(* The JSON boundary: dto.ts, api.ts.  A JSON body is kept as the value that *)
(* JSON.stringify serialises: an object is a record, an array a sequence.    *)

ServiceInfo(name, endpoint) == [name |-> name, endpoint |-> endpoint]

\* exception is an Error, of which only the message is read
RemoteServiceError(service, exception) ==
  [kind |-> "RemoteServiceError", service |-> service, exception |-> exception]

CustomerInfoDtoFromDomain(domainObj) ==
  [firstName |-> domainObj.name.firstName, lastName |-> domainObj.name.lastName,
   emailAddress |-> domainObj.emailAddress]

AddressDtoFromDomain(domainObj) ==
  [addressLine1 |-> domainObj.AddressLine1, city |-> domainObj.City,
   zipCode |-> domainObj.ZipCode, addressLine2 |-> domainObj.AddressLine2,
   addressLine3 |-> domainObj.AddressLine3, addressLine4 |-> domainObj.AddressLine4]

PricedOrderLineDtoFromDomain(domainObj) ==
  [orderLineId |-> domainObj.OrderLineId, productCode |-> domainObj.ProductCode.value,
   quantity |-> domainObj.Quantity.value, linePrice |-> domainObj.LinePrice]

OrderPlacedDtoFromDomain(domainObj) ==
  [orderId |-> domainObj.OrderId,
   customerInfo |-> CustomerInfoDtoFromDomain(domainObj.CustomerInfo),
   shippingAddress |-> AddressDtoFromDomain(domainObj.ShippingAddress),
   billingAddress |-> AddressDtoFromDomain(domainObj.BillingAddress),
   amountToBill |-> domainObj.AmountToBill,
   lines |-> [i \in 1..Len(domainObj.Lines) |-> PricedOrderLineDtoFromDomain(domainObj.Lines[i])]]

BillableOrderPlacedDtoFromDomain(domainObj) ==
  [orderId |-> domainObj.OrderId,
   billingAddress |-> AddressDtoFromDomain(domainObj.BillingAddress),
   amountToBill |-> domainObj.AmountToBill]

OrderAcknowledgmentSentDtoFromDomain(domainObj) ==
  [orderId |-> domainObj.OrderId, emailAddress |-> domainObj.EmailAddress]

\* Object.fromEntries of the one entry [tag, dto]
placeOrderEventDtoFromDomain(domainObj) ==
  CASE domainObj.tag = "OrderPlaced" ->
         [k \in {"OrderPlaced"} |-> OrderPlacedDtoFromDomain(domainObj)]
    [] domainObj.tag = "BillableOrderPlaced" ->
         [k \in {"BillableOrderPlaced"} |-> BillableOrderPlacedDtoFromDomain(domainObj)]
    [] domainObj.tag = "OrderAcknowledgmentSent" ->
         [k \in {"OrderAcknowledgmentSent"} |-> OrderAcknowledgmentSentDtoFromDomain(domainObj)]

PlaceOrderErrorDto(code, message) == [code |-> code, message |-> message]

PlaceOrderErrorDtoFromDomain(domainObj) ==
  CASE domainObj.kind = "ValidationError" ->
         PlaceOrderErrorDto("ValidationError", domainObj.message)
    [] domainObj.kind = "PricingError" ->
         PlaceOrderErrorDto("PricingError", domainObj.message)
    [] domainObj.kind = "RemoteServiceError" ->
         PlaceOrderErrorDto("RemoveServiceError",
                            domainObj.service.name \o <<": ">> \o domainObj.exception.message)

HttpResponse(httpStatusCode, body) == [httpStatusCode |-> httpStatusCode, body |-> body]

workflowResultToHttpReponse(workflowResult) ==
  IF workflowResult.tag = "Left"
  THEN HttpResponse(401, PlaceOrderErrorDtoFromDomain(workflowResult.left))
  ELSE HttpResponse(200, [i \in 1..Len(workflowResult.right) |->
                            placeOrderEventDtoFromDomain(workflowResult.right[i])])

-----------------------------------------------------------------------------
(* The unvalidated orders and the collaborator outcomes explored *)

MaxLines == 2
MaxBulkLines == 11

GoodOrderId == <<"O", "1">>
OrderIds == {GoodOrderId, <<>>, Repeat("x", String50MaxLen + 1)}

GoodCustomerInfo ==
  [FirstName |-> <<"A", "l">>, LastName |-> <<"B", "o">>, EmailAddress |-> <<"a", "@", "b">>]
CustomerInfos ==
  [FirstName : {<<"A", "l">>, Undefined},
   LastName : {<<"B", "o">>, Repeat("y", String50MaxLen + 1)},
   EmailAddress : {<<"a", "@", "b">>, <<"a", "b">>}]

UnvalidatedAddress(addressLine1, addressLine2, city, zipCode) ==
  [AddressLine1 |-> addressLine1, AddressLine2 |-> addressLine2, AddressLine3 |-> Undefined,
   AddressLine4 |-> Undefined, City |-> city, ZipCode |-> zipCode]

GoodAddress == UnvalidatedAddress(<<"1", " ", "M">>, Undefined, <<"C">>, Repeat("d", 5))
FlatAddress == UnvalidatedAddress(<<"2", " ", "M">>, <<"F">>, <<"C">>, Repeat("d", 5))
DigitZipAddress == UnvalidatedAddress(<<"1", " ", "M">>, Undefined, <<"C">>, <<"1", "2", "3", "4", "5">>)
NoLine1Address == UnvalidatedAddress(<<>>, Undefined, <<"C">>, Repeat("d", 5))
NormalizedAddress == UnvalidatedAddress(<<"N">>, Undefined, <<"N">>, Repeat("d", 5))
LongLine2Address ==
  UnvalidatedAddress(<<"N">>, Repeat("z", String50MaxLen + 1), <<"N">>, Repeat("d", 5))

ShippingAddresses == {GoodAddress, DigitZipAddress}
BillingAddresses == {FlatAddress, NoLine1Address}

UnvalidatedOrderLine(orderLineId, productCode, quantity) ==
  [OrderLineId |-> orderLineId, ProductCode |-> productCode, Quantity |-> quantity]

WidgetD == <<"W", "d", "d", "d", "d">>
GizmoD == <<"G", "d", "d", "d">>
BulkLine == UnvalidatedOrderLine(<<"L">>, WidgetD, Num(1000))
OrderLines ==
  { UnvalidatedOrderLine(<<"L">>, WidgetD, Num(3)),
    UnvalidatedOrderLine(<<"L">>, GizmoD, Ratio(5, 100)),
    BulkLine,
    UnvalidatedOrderLine(<<>>, WidgetD, Num(3)),
    UnvalidatedOrderLine(<<"L">>, <<"X", "9", "9", "9", "9">>, Num(3)),
    UnvalidatedOrderLine(<<"L">>, <<"W", "1", "2", "3", "4">>, Num(3)),
    UnvalidatedOrderLine(<<"L">>, WidgetD, Zero) }

UnvalidatedOrder(orderId, customerInfo, shippingAddress, billingAddress, lines) ==
  [OrderId |-> orderId, CustomerInfo |-> customerInfo, ShippingAddress |-> shippingAddress,
   BillingAddress |-> billingAddress, Lines |-> lines]

\* an otherwise valid order of the one line (code, 3)
OneLineOrder(code) ==
  UnvalidatedOrder(GoodOrderId, GoodCustomerInfo, GoodAddress, FlatAddress,
                   <<UnvalidatedOrderLine(<<"L">>, code, Num(3))>>)

\* every combination of the fields above with at most MaxLines lines
SmallOrders ==
  { UnvalidatedOrder(o, c, s, b, l) :
      o \in OrderIds, c \in CustomerInfos, s \in ShippingAddresses, b \in BillingAddresses,
      l \in UNION {[1..n -> OrderLines] : n \in 0..MaxLines} }

\* well-formed orders of many full-quantity lines, enough for the total to pass
\* the billing-amount bound
BulkOrders ==
  { UnvalidatedOrder(GoodOrderId, GoodCustomerInfo, GoodAddress, FlatAddress, Repeat(BulkLine, n)) :
      n \in (MaxLines + 1)..MaxBulkLines }

\* an order of gizmos by weight: 1.4 kg, then lines of 99.86 kg up to
\* MaxBulkLines lines in all
KilogramOrder ==
  UnvalidatedOrder(GoodOrderId, GoodCustomerInfo, GoodAddress, FlatAddress,
                   [i \in 1..MaxBulkLines |->
                      UnvalidatedOrderLine(<<"L">>, GizmoD,
                                           IF i = 1 THEN Ratio(140, 100) ELSE Ratio(9986, 100))])

\* the codes of the order that createProductCode accepts: the only arguments
\* checkProductCodeExists can be called with
ParsedCodes(unvalidated) ==
  { unvalidated.Lines[i].ProductCode : i \in
      { j \in 1..Len(unvalidated.Lines) :
          IsRight(CommonCreateProductCode("ProductCode", unvalidated.Lines[j].ProductCode)) } }

CheckProductCodeExistsOutcomes == {"true", "false", "throw"}

\* checkAddressExists resolves to the address as given, to another address, or
\* to one of the two address errors, or it rejects
AddressResponses(address) ==
  {Right(a) : a \in {address, NormalizedAddress, LongLine2Address}}
  \cup {Left("AddressNotFound"), Left("InvalidFormat"), Throw}

AddressOutcome(response) ==
  IF response.tag = "Left" THEN response.left
  ELSE IF response.tag = "Throw" THEN "throw" ELSE "Right"

GetProductPriceOutcomes == {Returns(Zero), Returns(Num(1)), Returns(Num(10)), Throw}

-----------------------------------------------------------------------------
(* The run of placeOrder on one order *)

Init ==
  /\ order \in SmallOrders \cup BulkOrders \cup {KilogramOrder}
  /\ pc = "Unvalidated"
  /\ scope = None
  /\ validatedOrder = None
  /\ pricedOrder = None
  /\ calls = <<>>
  /\ addressResponses = <<>>
  /\ result = None
  /\ input = None
  /\ output = None
  /\ instances = <<>>

\* validateOrder, the synchronous part: order id, customer info, every line
ValidateOrder ==
  /\ pc = "Unvalidated"
  /\ \E checkProductCodeExists \in [ParsedCodes(order) -> CheckProductCodeExistsOutcomes] :
       LET v == validateOrderFields(checkProductCodeExists, order)
       IN /\ calls' = calls \o v.calls
          /\ IF IsRight(v.res)
             THEN /\ scope' = v.res.right
                  /\ pc' = "CheckingShippingAddress"
                  /\ result' = result
             ELSE /\ scope' = scope
                  /\ pc' = "Done"
                  /\ result' = v.res
  /\ UNCHANGED <<order, validatedOrder, pricedOrder, addressResponses, input, output, instances>>

\* the positions of the run around the check of address k (1: shipping,
\* 2: billing): before the call, suspended on the promise of
\* checkAddressExists, and before toAddress
Checking(k) == IF k = 1 THEN "CheckingShippingAddress" ELSE "CheckingBillingAddress"
Awaiting(k) == IF k = 1 THEN "AwaitingShippingAddress" ELSE "AwaitingBillingAddress"
Converting(k) == IF k = 1 THEN "ConvertingShippingAddress" ELSE "ConvertingBillingAddress"

\* the address of the order that check k is about
AddressGiven(unvalidated, k) ==
  IF k = 1 THEN unvalidated.ShippingAddress ELSE unvalidated.BillingAddress

\* TE.bind('checkedShippingAddress') / TE.bind('checkedBillingAddress') starts:
\* toCheckedAddress calls checkAddressExists on the address as given, and the
\* run is suspended on the promise the call returned
CallCheckAddressExists(k) ==
  /\ pc = Checking(k)
  /\ calls' = Append(calls, Call("checkAddressExists", k, <<>>, "pending", Zero))
  /\ pc' = Awaiting(k)
  /\ UNCHANGED <<order, scope, validatedOrder, pricedOrder, addressResponses, result,
                 input, output, instances>>

\* the continuation of the settled check: a confirmed address is bound in the
\* scope as checkedShippingAddress / checkedBillingAddress, an error ends the run
BindCheckedAddress(k, checked) ==
  IF IsRight(checked)
  THEN /\ scope' = (IF k = 1 THEN [checkedShippingAddress |-> checked.right]
                    ELSE [checkedBillingAddress |-> checked.right]) @@ scope
       /\ pc' = Converting(k)
       /\ result' = result
  ELSE /\ scope' = scope
       /\ pc' = "Done"
       /\ result' = checked

\* the promise of checkAddressExists settles with a response; TE.mapLeft of
\* toCheckedAddress converts its error
CheckAddressExistsSettled(k) ==
  /\ pc = Awaiting(k)
  /\ \E response \in AddressResponses(AddressGiven(order, k)) :
       /\ calls' = [calls EXCEPT ![Len(calls)].out = AddressOutcome(response)]
       /\ addressResponses' = Append(addressResponses, response)
       /\ BindCheckedAddress(k, toCheckedAddress(response))
  /\ UNCHANGED <<order, validatedOrder, pricedOrder, input, output, instances>>

\* the continuation of toAddress: the address is bound in the scope as
\* shippingAddress / billingAddress, an error ends the run
BindAddress(k, address) ==
  IF IsRight(address)
  THEN /\ scope' = (IF k = 1 THEN [shippingAddress |-> address.right]
                    ELSE [billingAddress |-> address.right]) @@ scope
       /\ pc' = (IF k = 1 THEN Checking(2) ELSE "MakingValidatedOrder")
       /\ result' = result
  ELSE /\ scope' = scope
       /\ pc' = "Done"
       /\ result' = address

\* TE.bind('shippingAddress') / TE.bind('billingAddress'): toAddress on the
\* checked address the scope holds
ConvertCheckedAddress(k) ==
  /\ pc = Converting(k)
  /\ BindAddress(k, toAddress(IF k = 1 THEN scope.checkedShippingAddress
                              ELSE scope.checkedBillingAddress))
  /\ UNCHANGED <<order, validatedOrder, pricedOrder, calls, addressResponses, input, output,
                 instances>>

\* TE.map: the ValidatedOrder of what the scope holds
MakeValidatedOrder ==
  /\ pc = "MakingValidatedOrder"
  /\ validatedOrder' = ValidatedOrder(scope.orderId, scope.customerInfo, scope.shippingAddress,
                                      scope.billingAddress, scope.lines)
  /\ pc' = "Validated"
  /\ UNCHANGED <<order, scope, pricedOrder, calls, addressResponses, result, input, output,
                 instances>>

\* TE.chain(TE.fromEitherK(priceOrder(getPrice)))
PriceOrder ==
  /\ pc = "Validated"
  /\ \E getProductPrice \in
         [{validatedOrder.Lines[i].ProductCode.value : i \in 1..Len(validatedOrder.Lines)}
            -> GetProductPriceOutcomes] :
       LET p == priceOrder(getProductPrice, validatedOrder)
       IN /\ calls' = calls \o p.calls
          /\ IF IsRight(p.res)
             THEN /\ pricedOrder' = p.res.right
                  /\ pc' = "Priced"
                  /\ result' = result
             ELSE /\ pricedOrder' = pricedOrder
                  /\ pc' = "Done"
                  /\ result' = p.res
  /\ UNCHANGED <<order, scope, validatedOrder, addressResponses, input, output, instances>>

\* TE.map(placeOrderEvents(createAck, sendAck))
PlaceOrderEvents ==
  /\ pc = "Priced"
  /\ \E createAck \in {"letter", "throw"}, sendAck \in {"Sent", "NotSent", "throw"} :
       LET e == placeOrderEvents(createAck, sendAck, pricedOrder)
       IN /\ calls' = calls \o e.calls
          /\ result' = e.res
          /\ pc' = "Done"
  /\ UNCHANGED <<order, scope, validatedOrder, pricedOrder, addressResponses, input, output, instances>>

Next ==
  \/ ValidateOrder
  \/ CallCheckAddressExists(1)
  \/ CheckAddressExistsSettled(1)
  \/ ConvertCheckedAddress(1)
  \/ CallCheckAddressExists(2)
  \/ CheckAddressExistsSettled(2)
  \/ ConvertCheckedAddress(2)
  \/ MakeValidatedOrder
  \/ PriceOrder
  \/ PlaceOrderEvents

Spec == Init /\ [][Next]_vars

-----------------------------------------------------------------------------
(* The constructors of the simple types and the two converters built on     *)
(* them, each called on its own: input is the call, output what it returns. *)

MaxStringLen == 52
MaxCodeLen == 6

\* every string over the alphabet of at most maxLen characters
StringsOver(alphabet, maxLen) == UNION {[1..n -> alphabet] : n \in 0..maxLen}

\* str: string of createString / createStringOption
BoundedStringArgs ==
  {Repeat("x", n) : n \in 0..MaxStringLen} \cup {Undefined, <<"a", " ", "b">>}

\* code: string of createProductCode
ProductCodeArgs ==
  StringsOver({"W", "G", "d", "1"}, MaxCodeLen)
  \cup {Undefined, <<"X", "9", "9", "9", "9">>, <<"W", "1", "2", "3", "4">>,
        <<"G", "1", "2", "3">>, <<"W", "1", "2", "3">>, <<"W", "1", "2", "3", "4", "5">>}

\* s: string of ZipCode.create
ZipCodeArgs ==
  StringsOver({"d", "1", "x"}, MaxCodeLen)
  \cup {Undefined, <<"1", "2", "3", "4", "5">>, <<"9", "0", "2", "1", "0">>}

\* s: string of EmailAddress.create
EmailAddressArgs ==
  StringsOver({"a", "@", "\n", LineSeparator}, MaxCodeLen)
  \cup {Undefined, <<"a", "@", "b", ".", "c">>}
  \cup {<<"a", "@", c>> : c \in {"\r", ParagraphSeparator}}
  \cup {<<c, "@", "a">> : c \in {"\r", ParagraphSeparator}}

\* num: number of an order line's quantity, of two decimals
QuantityArgs ==
  {Ratio(k, 100) : k \in
     {-100, 0, 1, 4, 5, 6, 50, 99, 100, 101, 150, 250, 300, 9999, 10000, 10001, 10050,
      50000, 99900, 99950, 100000, 100001, 100100}}

\* the lines toValidatedOrderLine is called on, with what
\* checkProductCodeExists answers for the line's code
ValidatedOrderLineArgs ==
  [line : {UnvalidatedOrderLine(<<"L">>, code, num) : code \in {WidgetD, GizmoD}, num \in QuantityArgs},
   exists : {"true", "false"}]

\* the checked addresses toAddress is called on
AddressArgs ==
  [AddressLine1 : {<<"1", " ", "M">>, <<>>},
   AddressLine2 : {Undefined, <<>>, <<"F">>, Repeat("z", String50MaxLen + 1)},
   AddressLine3 : {Undefined, <<"T">>},
   AddressLine4 : {Undefined, <<"Q">>},
   City : {<<"C">>, Repeat("c", String50MaxLen)},
   ZipCode : {Repeat("d", 5), <<"1", "2", "3", "4", "5">>}]

\* the priced orders whose events are handed to the boundary: no line, one
\* line, two lines, the amount to bill zero or positive
PricedOrderArgs ==
  { PricedOrder(GoodOrderId,
                [name |-> [firstName |-> <<"A", "l">>, lastName |-> <<"B", "o">>],
                 emailAddress |-> <<"a", "@", "b">>],
                [AddressLine1 |-> line1, AddressLine2 |-> None, AddressLine3 |-> None,
                 AddressLine4 |-> None, City |-> <<"C">>, ZipCode |-> Repeat("d", 5)],
                [AddressLine1 |-> <<"2", " ", "M">>, AddressLine2 |-> Some(<<"F">>),
                 AddressLine3 |-> None, AddressLine4 |-> None, City |-> <<"C">>,
                 ZipCode |-> Repeat("d", 5)],
                IF prices = <<>> THEN Zero ELSE ConcatAllSum(prices),
                [i \in 1..Len(prices) |->
                   PricedOrderLine(<<"L">>, IF i = 1 THEN WidgetCode(WidgetD) ELSE GizmoCode(GizmoD),
                                   IF i = 1 THEN UnitQuantity(Num(3)) ELSE KilogramQuantity(Ratio(150, 100)),
                                   prices[i])]) :
      line1 \in {<<"1", " ", "M">>, <<"N">>},
      prices \in UNION {[1..n -> {Zero, Num(10)}] : n \in 0..MaxLines} }

\* the messages of the errors handed to the boundary
ErrorMessageArgs == {<<"Address not found">>, <<"must not be null or empty">>, <<>>}

\* result: the Either workflowResultToHttpReponse is called on
WorkflowResultArgs ==
  {Left(ValidationError(m)) : m \in ErrorMessageArgs}
  \cup {Left(PricingError(m)) : m \in ErrorMessageArgs}
  \cup {Left(RemoteServiceError(ServiceInfo(n, <<"http://svc">>), [message |-> m])) :
          n \in {<<"AddressCheckingService">>, <<>>}, m \in {<<"timeout">>, <<>>}}
  \cup {Right(createEvents(p, a)) :
          p \in PricedOrderArgs,
          a \in {None, Some(OrderAcknowledgmentSent(GoodOrderId, <<"a", "@", "b">>))}}

CreateInputs ==
  [ctor : {"String50", "OrderId", "OrderLineId", "String50Option"}, arg : BoundedStringArgs]
  \cup [ctor : {"ProductCode"}, arg : ProductCodeArgs]
  \cup [ctor : {"ZipCode"}, arg : ZipCodeArgs]
  \cup [ctor : {"EmailAddress"}, arg : EmailAddressArgs]
  \cup [ctor : {"ValidatedOrderLine"}, arg : ValidatedOrderLineArgs]
  \cup [ctor : {"Address"}, arg : AddressArgs]
  \cup [ctor : {"HttpResponse"}, arg : WorkflowResultArgs]

InitCreate ==
  /\ input \in CreateInputs
  /\ output = None
  /\ pc = "Create"
  /\ order = None
  /\ scope = None
  /\ validatedOrder = None
  /\ pricedOrder = None
  /\ calls = <<>>
  /\ addressResponses = <<>>
  /\ result = None
  /\ instances = <<>>

\* the call returns: output is the value returned
Return(value) ==
  /\ pc = "Create"
  /\ output' = value
  /\ pc' = "Created"
  /\ UNCHANGED <<order, scope, validatedOrder, pricedOrder, calls, addressResponses, result,
                 input, instances>>

\* String50.create, OrderId.create, OrderLineId.create
CreateString ==
  /\ input.ctor \in {"String50", "OrderId", "OrderLineId"}
  /\ Return(CASE input.ctor = "String50" -> String50Create(input.arg)
               [] input.ctor = "OrderId" -> OrderIdCreate(input.arg)
               [] input.ctor = "OrderLineId" -> OrderLineIdCreate(input.arg))

\* String50.createOption
CreateStringOption ==
  /\ input.ctor = "String50Option"
  /\ Return(String50CreateOption(input.arg))

CreateZipCode ==
  /\ input.ctor = "ZipCode"
  /\ Return(ZipCodeCreate(input.arg))

CreateEmailAddress ==
  /\ input.ctor = "EmailAddress"
  /\ Return(EmailAddressCreate(input.arg))

CreateProductCode ==
  /\ input.ctor = "ProductCode"
  /\ Return(createProductCode(input.arg))

ToValidatedOrderLine ==
  /\ input.ctor = "ValidatedOrderLine"
  /\ Return(toValidatedOrderLine([code \in {input.arg.line.ProductCode} |-> input.arg.exists],
                                 1, input.arg.line).res)

ToAddress ==
  /\ input.ctor = "Address"
  /\ Return(toAddress(input.arg))

WorkflowResultToHttpReponse ==
  /\ input.ctor = "HttpResponse"
  /\ Return(workflowResultToHttpReponse(input.arg))

NextCreate ==
  \/ CreateString
  \/ CreateStringOption
  \/ CreateZipCode
  \/ CreateEmailAddress
  \/ CreateProductCode
  \/ ToValidatedOrderLine
  \/ ToAddress
  \/ WorkflowResultToHttpReponse

CreateSpec == InitCreate /\ [][NextCreate]_vars

-----------------------------------------------------------------------------
(* Several runs of placeOrder at once.  Each instance is the record of one   *)
(* run, with the collaborators it was given; a step is the code one instance *)
(* runs between two suspensions of its promise chain.                        *)

NumInstances == 2

\* an order of two lines whose id, addresses and lines differ from those of
\* OneLineOrder
TwoLineOrder ==
  UnvalidatedOrder(<<"O", "2">>, GoodCustomerInfo, FlatAddress, GoodAddress,
                   <<UnvalidatedOrderLine(<<"L">>, GizmoD, Ratio(5, 100)), BulkLine>>)

\* what the collaborators of a run answer: checkProductCodeExists for every
\* code, checkAddressExists for the shipping and for the billing address
\* ("given": the address as given), getProductPrice for every code,
\* sendOrderAcknowledgment
Collaborators(checkCode, shipping, billing, getPrice, sendAck) ==
  [checkProductCodeExists |-> checkCode, checkShippingAddress |-> shipping,
   checkBillingAddress |-> billing, getProductPrice |-> getPrice,
   createOrderAcknowledgmentLetter |-> "letter", sendOrderAcknowledgment |-> sendAck]

\* the orders processed at once, each with what its collaborators answer: an
\* order placed and acknowledged, one placed without acknowledgment and at no
\* charge, and one that fails at each step
ConcurrentRuns ==
  { [order |-> OneLineOrder(WidgetD),
     deps |-> Collaborators("true", "given", "given", Returns(Num(1)), "Sent")],
    [order |-> TwoLineOrder,
     deps |-> Collaborators("true", "given", "given", Returns(Zero), "NotSent")],
    [order |-> OneLineOrder(WidgetD),
     deps |-> Collaborators("false", "given", "given", Returns(Num(1)), "Sent")],
    [order |-> TwoLineOrder,
     deps |-> Collaborators("true", "AddressNotFound", "given", Returns(Num(1)), "Sent")],
    [order |-> OneLineOrder(WidgetD),
     deps |-> Collaborators("true", "given", "InvalidFormat", Returns(Num(1)), "Sent")],
    [order |-> TwoLineOrder,
     deps |-> Collaborators("true", "given", "given", Returns(Num(10)), "Sent")] }

\* the response of checkAddressExists to the address
AddressResponse(answer, address) == IF answer = "given" THEN Right(address) ELSE Left(answer)

\* placeOrder on the order with nothing else running: what the task resolves
\* to and the collaborator calls it makes, in order
PlaceOrderAlone(unvalidatedOrder, deps) ==
  LET v == validateOrderFields([code \in ParsedCodes(unvalidatedOrder) |->
                                  deps.checkProductCodeExists], unvalidatedOrder)
      shipping == AddressResponse(deps.checkShippingAddress, unvalidatedOrder.ShippingAddress)
      billing == AddressResponse(deps.checkBillingAddress, unvalidatedOrder.BillingAddress)
      checkedShippingAddress == toCheckedAddress(shipping)
      checkedBillingAddress == toCheckedAddress(billing)
      shippingAddress == toAddress(checkedShippingAddress.right)
      billingAddress == toAddress(checkedBillingAddress.right)
      shippingCalled == Append(v.calls, Call("checkAddressExists", 1, <<>>,
                                             AddressOutcome(shipping), Zero))
      billingCalled == Append(shippingCalled, Call("checkAddressExists", 2, <<>>,
                                                   AddressOutcome(billing), Zero))
      validated == ValidatedOrder(v.res.right.orderId, v.res.right.customerInfo,
                                  shippingAddress.right, billingAddress.right, v.res.right.lines)
      p == priceOrder([code \in {validated.Lines[k].ProductCode.value :
                                   k \in 1..Len(validated.Lines)} |-> deps.getProductPrice],
                      validated)
      e == placeOrderEvents(deps.createOrderAcknowledgmentLetter, deps.sendOrderAcknowledgment,
                            p.res.right)
  IN IF ~IsRight(v.res) THEN [result |-> v.res, calls |-> v.calls]
     ELSE IF ~IsRight(checkedShippingAddress)
     THEN [result |-> checkedShippingAddress, calls |-> shippingCalled]
     ELSE IF ~IsRight(shippingAddress) THEN [result |-> shippingAddress, calls |-> shippingCalled]
     ELSE IF ~IsRight(checkedBillingAddress)
     THEN [result |-> checkedBillingAddress, calls |-> billingCalled]
     ELSE IF ~IsRight(billingAddress) THEN [result |-> billingAddress, calls |-> billingCalled]
     ELSE IF ~IsRight(p.res) THEN [result |-> p.res, calls |-> billingCalled \o p.calls]
     ELSE [result |-> e.res, calls |-> billingCalled \o p.calls \o e.calls]

\* The scope objects of the runs are kept by reference: object 0 is the `{}`
\* of E.Do, one object of the module that every run of validateOrder starts
\* from; object i stands for the object the latest bind of instance i made
\* (the objects of its earlier binds are no longer referenced).
EmptyObject == <<>>

\* a run about to start: its scope is the object of E.Do
NewInstance(unvalidatedOrder, deps) ==
  [order |-> unvalidatedOrder, deps |-> deps, pc |-> "Unvalidated", scope |-> 0,
   validatedOrder |-> None, pricedOrder |-> None, calls |-> <<>>, addressResponses |-> <<>>,
   result |-> None]

\* bind writes the fields into the object it was given and passes that object on
bindInPlace(objects, ref, fresh, fields) ==
  [objects |-> [objects EXCEPT ![ref] = fields @@ objects[ref]], ref |-> ref]

\* E.bind / TE.bind: a fresh object of the fields of the scope object and the
\* bound ones; the object it was given is left as it is
bind(objects, ref, fresh, fields) ==
  [objects |-> [objects EXCEPT ![fresh] = fields @@ objects[ref]], ref |-> fresh]

\* what a step of a run leaves: the run and the objects
Step(run, objects) == [run |-> run, objects |-> objects]

\* the run goes on at position at with the scope object bound
Bound(run, bound, at) == Step([run EXCEPT !.scope = bound.ref, !.pc = at], bound.objects)

\* the run ends with the Left
Failed(run, objects, left) == Step([run EXCEPT !.pc = "Done", !.result = left], objects)

\* validateOrder's synchronous part returned v
Validating(run, objects, i, v) ==
  IF IsRight(v.res)
  THEN Bound([run EXCEPT !.calls = @ \o v.calls], bind(objects, run.scope, i, v.res.right),
             Checking(1))
  ELSE Failed([run EXCEPT !.calls = @ \o v.calls], objects, v.res)

\* toCheckedAddress calls checkAddressExists for address k; the run is
\* suspended on the promise
CallingAddressCheck(run, objects, k) ==
  Step([run EXCEPT !.calls = Append(@, Call("checkAddressExists", k, <<>>, "pending", Zero)),
                   !.pc = Awaiting(k)],
       objects)

\* the run with the response to its pending call
Answered(run, response) ==
  [run EXCEPT !.calls[Len(run.calls)].out = AddressOutcome(response),
              !.addressResponses = Append(@, response)]

\* the promise of checkAddressExists settled with the response, toCheckedAddress
\* gave checked: a confirmed address is bound
AddressCheckSettled(run, objects, i, k, response, checked) ==
  IF IsRight(checked)
  THEN Bound(Answered(run, response),
             bind(objects, run.scope, i,
                  IF k = 1 THEN [checkedShippingAddress |-> checked.right]
                  ELSE [checkedBillingAddress |-> checked.right]),
             Converting(k))
  ELSE Failed(Answered(run, response), objects, checked)

\* toAddress on the checked address of the scope gave address
ConvertingAddress(run, objects, i, k, address) ==
  IF IsRight(address)
  THEN Bound(run,
             bind(objects, run.scope, i,
                  IF k = 1 THEN [shippingAddress |-> address.right]
                  ELSE [billingAddress |-> address.right]),
             IF k = 1 THEN Checking(2) ELSE "MakingValidatedOrder")
  ELSE Failed(run, objects, address)

\* TE.map: the ValidatedOrder of what the scope object holds
MakingValidatedOrder(run, objects, held) ==
  Step([run EXCEPT !.validatedOrder = ValidatedOrder(held.orderId, held.customerInfo,
                                                     held.shippingAddress,
                                                     held.billingAddress, held.lines),
                   !.pc = "Validated"],
       objects)

\* priceOrder returned p
Pricing(run, objects, p) ==
  Step([run EXCEPT !.calls = @ \o p.calls,
                   !.pricedOrder = IF IsRight(p.res) THEN p.res.right ELSE @,
                   !.pc = IF IsRight(p.res) THEN "Priced" ELSE "Done",
                   !.result = IF IsRight(p.res) THEN @ ELSE p.res],
       objects)

\* placeOrderEvents returned e
Placing(run, objects, e) ==
  Step([run EXCEPT !.calls = @ \o e.calls, !.result = e.res, !.pc = "Done"], objects)

\* the step of the check of address k the run is at
ResumeAddressCheck(run, objects, i, k) ==
  CASE run.pc = Checking(k) -> CallingAddressCheck(run, objects, k)
    [] run.pc = Awaiting(k) ->
         AddressCheckSettled(run, objects, i, k,
           AddressResponse(IF k = 1 THEN run.deps.checkShippingAddress
                           ELSE run.deps.checkBillingAddress, AddressGiven(run.order, k)),
           toCheckedAddress(AddressResponse(IF k = 1 THEN run.deps.checkShippingAddress
                                            ELSE run.deps.checkBillingAddress,
                                            AddressGiven(run.order, k))))
    [] run.pc = Converting(k) ->
         ConvertingAddress(run, objects, i, k,
           toAddress(IF k = 1 THEN objects[run.scope].checkedShippingAddress
                     ELSE objects[run.scope].checkedBillingAddress))

\* the next step of the run of instance i, from one suspension of its promise
\* chain to the next: it is given the scope object its reference names among
\* the objects, and its collaborators answer as its deps say
Resume(run, objects, i) ==
  CASE run.pc = "Unvalidated" ->
         Validating(run, objects, i,
                    validateOrderFields([code \in ParsedCodes(run.order) |->
                                           run.deps.checkProductCodeExists], run.order))
    [] run.pc \in {Checking(1), Awaiting(1), Converting(1)} ->
         ResumeAddressCheck(run, objects, i, 1)
    [] run.pc \in {Checking(2), Awaiting(2), Converting(2)} ->
         ResumeAddressCheck(run, objects, i, 2)
    [] run.pc = "MakingValidatedOrder" -> MakingValidatedOrder(run, objects, objects[run.scope])
    [] run.pc = "Validated" ->
         Pricing(run, objects,
                 priceOrder([code \in {run.validatedOrder.Lines[k].ProductCode.value :
                                         k \in 1..Len(run.validatedOrder.Lines)} |->
                               run.deps.getProductPrice],
                            run.validatedOrder))
    [] run.pc = "Priced" ->
         Placing(run, objects,
                 placeOrderEvents(run.deps.createOrderAcknowledgmentLetter,
                                  run.deps.sendOrderAcknowledgment, run.pricedOrder))
    [] run.pc = "Done" -> Step(run, objects)

\* in ConcurrentSpec the variable scope holds the scope objects, object 0 to
\* object NumInstances
InitConcurrent ==
  /\ instances \in [1..NumInstances ->
                       {NewInstance(r.order, r.deps) : r \in ConcurrentRuns}]
  /\ scope = [ref \in 0..NumInstances |-> EmptyObject]
  /\ pc = "Concurrent"
  /\ order = None
  /\ validatedOrder = None
  /\ pricedOrder = None
  /\ calls = <<>>
  /\ addressResponses = <<>>
  /\ result = None
  /\ input = None
  /\ output = None

\* the step of instance i took place
Resumed(i, step) ==
  /\ instances' = [instances EXCEPT ![i] = step.run]
  /\ scope' = step.objects

\* the event loop runs the next continuation of instance i, whatever the
\* positions of the other instances
ResumeInstance(i) ==
  /\ instances[i].pc # "Done"
  /\ Resumed(i, Resume(instances[i], scope, i))
  /\ UNCHANGED <<order, pc, validatedOrder, pricedOrder, calls, addressResponses, result,
                 input, output>>

NextConcurrent == \E i \in 1..NumInstances : ResumeInstance(i)

ConcurrentSpec == InitConcurrent /\ [][NextConcurrent]_vars

-----------------------------------------------------------------------------
(* The pipeline without effects: implementation-without-effects.ts.  A       *)
(* function of it returns its value, written Right(value), or throws; what   *)
(* is thrown is the record tagged Throw with the error.  The first throw of  *)
(* a function body is the outcome of the function.                           *)

\* E.getOrElse((e) => { throw e })
failOnError(aResult) ==
  IF aResult.tag = "Left" THEN [tag |-> "Throw", error |-> aResult.left] ELSE aResult

toCustomerInfoWithoutEffects(unvalidatedCustomerInfo) ==
  LET firstName == failOnError(createString("FirstName", String50MaxLen,
                                            unvalidatedCustomerInfo.FirstName))
      lastName == failOnError(createString("LastName", String50MaxLen,
                                           unvalidatedCustomerInfo.LastName))
      emailAddress == failOnError(createLike("EmailAddress", ".+@.+",
                                             unvalidatedCustomerInfo.EmailAddress))
  IN IF ~IsRight(firstName) THEN firstName
     ELSE IF ~IsRight(lastName) THEN lastName
     ELSE IF ~IsRight(emailAddress) THEN emailAddress
     ELSE Right([name |-> [firstName |-> firstName.right, lastName |-> lastName.right],
                 emailAddress |-> emailAddress.right])

\* checkAddressExists returns the checked address, Right(address), or throws
toAddressWithoutEffects(checkAddressExists, unvalidatedAddress) ==
  LET checkedAddress == checkAddressExists[unvalidatedAddress]
      addressLine1 == failOnError(createString("AddressLine1", String50MaxLen,
                                               checkedAddress.right.AddressLine1))
      addressLine2 == failOnError(createStringOption("AddressLine2", String50MaxLen,
                                                     checkedAddress.right.AddressLine2))
      addressLine3 == failOnError(createStringOption("AddressLine3", String50MaxLen,
                                                     checkedAddress.right.AddressLine3))
      addressLine4 == failOnError(createStringOption("AddressLine4", String50MaxLen,
                                                     checkedAddress.right.AddressLine4))
      city == failOnError(createString("City", String50MaxLen, checkedAddress.right.City))
      zipCode == failOnError(createLike("ZipCode", "d{5}", checkedAddress.right.ZipCode))
  IN IF ~IsRight(checkedAddress) THEN failOnError(errorFrom(<<"AddressValidationFailure">>))
     ELSE IF ~IsRight(addressLine1) THEN addressLine1
     ELSE IF ~IsRight(addressLine2) THEN addressLine2
     ELSE IF ~IsRight(addressLine3) THEN addressLine3
     ELSE IF ~IsRight(addressLine4) THEN addressLine4
     ELSE IF ~IsRight(city) THEN city
     ELSE IF ~IsRight(zipCode) THEN zipCode
     ELSE Right([AddressLine1 |-> addressLine1.right, AddressLine2 |-> addressLine2.right,
                 AddressLine3 |-> addressLine3.right, AddressLine4 |-> addressLine4.right,
                 City |-> city.right, ZipCode |-> zipCode.right])

\* a code that parses is passed on whatever checkProductCodeExists answers
toProductCodeWithoutEffectsUnchecked(checkProductCodeExists, productCode) ==
  failOnError(CommonCreateProductCode("ProduceCode", productCode))

\* ProductCode.create, then predicateToPassthru of checkProductCodeExists
toProductCodeWithoutEffects(checkProductCodeExists, productCode) ==
  LET created == failOnError(CommonCreateProductCode("ProduceCode", productCode))
  IN IF ~IsRight(created) THEN created
     ELSE IF checkProductCodeExists[productCode] = "true" THEN created
     ELSE failOnError(errorFrom(<<"Invalid: ">> \o productCode))

\* the fields of a validated line, evaluated in turn: the first that throws
\* is the outcome; quantity is looked at only when productCode was returned
ValidatedLineWithoutEffects(orderLineId, productCode, quantity) ==
  IF ~IsRight(orderLineId) THEN orderLineId
  ELSE IF ~IsRight(productCode) THEN productCode
  ELSE IF ~IsRight(quantity) THEN quantity
  ELSE Right(ValidatedOrderLine(orderLineId.right, productCode.right, quantity.right))

toValidatedOrderLineWithoutEffects(checkProductExists, unvalidatedOrderLine) ==
  ValidatedLineWithoutEffects(
    failOnError(createString("OrderLineId", String50MaxLen, unvalidatedOrderLine.OrderLineId)),
    toProductCodeWithoutEffects(checkProductExists, unvalidatedOrderLine.ProductCode),
    failOnError(CommonCreateOrderQuantity(
                  "OrderQuantity",
                  toProductCodeWithoutEffects(checkProductExists,
                                              unvalidatedOrderLine.ProductCode).right,
                  unvalidatedOrderLine.Quantity)))

\* the first element of a mapped list for which the function threw, or the
\* list of what it returned: A.map of a function that throws ends there
FirstThrown(mapped) ==
  LET thrown == {i \in 1..Len(mapped) : ~IsRight(mapped[i])}
  IN IF thrown # {} THEN mapped[CHOOSE i \in thrown : \A j \in thrown : i <= j]
     ELSE Right([i \in 1..Len(mapped) |-> mapped[i].right])

\* the fields of the validated order, evaluated in turn
ValidatedOrderWithoutEffects(orderId, customerInfo, shippingAddress, billingAddress, lines) ==
  IF ~IsRight(orderId) THEN orderId
  ELSE IF ~IsRight(customerInfo) THEN customerInfo
  ELSE IF ~IsRight(shippingAddress) THEN shippingAddress
  ELSE IF ~IsRight(billingAddress) THEN billingAddress
  ELSE IF ~IsRight(lines) THEN lines
  ELSE Right(ValidatedOrder(orderId.right, customerInfo.right, shippingAddress.right,
                            billingAddress.right, lines.right))

validateOrderWithoutEffects(checkProductCodeExists, checkAddressExists, unvalidatedOrder) ==
  ValidatedOrderWithoutEffects(
    failOnError(createString("OrderId", String50MaxLen, unvalidatedOrder.OrderId)),
    toCustomerInfoWithoutEffects(unvalidatedOrder.CustomerInfo),
    toAddressWithoutEffects(checkAddressExists, unvalidatedOrder.ShippingAddress),
    toAddressWithoutEffects(checkAddressExists, unvalidatedOrder.BillingAddress),
    FirstThrown([i \in 1..Len(unvalidatedOrder.Lines) |->
                   toValidatedOrderLineWithoutEffects(checkProductCodeExists,
                                                      unvalidatedOrder.Lines[i])]))

\* the priced line, from what getProductPrice returned or threw and the line
\* price computed from it
PricedLineWithoutEffects(validatedOrderLine, price, linePrice) ==
  IF price.tag = "Throw" THEN price
  ELSE IF ~IsRight(linePrice) THEN linePrice
  ELSE Right(PricedOrderLine(validatedOrderLine.OrderLineId, validatedOrderLine.ProductCode,
                             validatedOrderLine.Quantity, linePrice.right))

toPricedOrderLineWithoutEffects(getProductPrice, validatedOrderLine) ==
  PricedLineWithoutEffects(
    validatedOrderLine,
    getProductPrice[validatedOrderLine.ProductCode.value],
    failOnError(PriceMultiply(getProductPrice[validatedOrderLine.ProductCode.value].value,
                              validatedOrderLine.Quantity.value)))

\* the priced order, from the lines and their sum; amountToBill is looked at
\* only when the lines were returned
BillOrderWithoutEffects(validated, lines, amountToBill) ==
  IF ~IsRight(lines) THEN lines
  ELSE IF ~IsRight(amountToBill) THEN amountToBill
  ELSE Right(PricedOrder(validated.OrderId, validated.CustomerInfo,
                         validated.ShippingAddress, validated.BillingAddress,
                         amountToBill.right, lines.right))

\* the prices of the lines returned, summed
SumLinesWithoutEffects(validated, lines) ==
  BillOrderWithoutEffects(
    validated, lines,
    failOnError(sumPrices([i \in 1..Len(lines.right) |-> lines.right[i].LinePrice])))

priceOrderWithoutEffects(getProductPrice, validated) ==
  SumLinesWithoutEffects(
    validated,
    FirstThrown([i \in 1..Len(validated.Lines) |->
                   toPricedOrderLineWithoutEffects(getProductPrice, validated.Lines[i])]))

\* flow: what a function returned is passed to the next, priceOrder
PriceValidated(deps, validated) ==
  IF ~IsRight(validated) THEN validated
  ELSE priceOrderWithoutEffects(deps.getProductPrice, validated.right)

\* flow: what a function returned is passed to the next, placeOrderEvents
PlacePriced(deps, priced) ==
  IF ~IsRight(priced) THEN priced
  ELSE placeOrderEvents(deps.createOrderAcknowledgmentLetter,
                        deps.sendOrderAcknowledgment, priced.right).res

\* flow(validateOrder(...), priceOrder(...), placeOrderEvents(...)); deps are
\* the collaborators, checkAddressExists a function of the address
placeOrderWithoutEffects(deps, unvalidatedOrder) ==
  PlacePriced(deps,
              PriceValidated(deps,
                             validateOrderWithoutEffects(deps.checkProductCodeExists,
                                                         deps.checkAddressExists,
                                                         unvalidatedOrder)))

\* the orders and collaborators both pipelines are run on: every header
\* without lines, the valid header with every list of lines, the bulk orders
WithoutEffectsArgs ==
  [order : {o \in SmallOrders : o.Lines = <<>>}
           \cup {UnvalidatedOrder(GoodOrderId, GoodCustomerInfo, s, FlatAddress, l) :
                   s \in ShippingAddresses, l \in UNION {[1..n -> OrderLines] : n \in 1..MaxLines}}
           \cup BulkOrders,
   deps : {Collaborators(c, a[1], a[2], p, d) :
             c \in {"true", "false"},
             a \in {<<"given", "given">>, <<"AddressNotFound", "given">>, <<"given", "InvalidFormat">>},
             p \in {Returns(Zero), Returns(Num(1)), Returns(Num(10))},
             d \in {"Sent", "NotSent"}}]

InitWithoutEffects ==
  /\ input \in WithoutEffectsArgs
  /\ pc = "WithoutEffects"
  /\ output = None
  /\ order = None
  /\ scope = None
  /\ validatedOrder = None
  /\ pricedOrder = None
  /\ calls = <<>>
  /\ addressResponses = <<>>
  /\ result = None
  /\ instances = <<>>

\* placeOrder of implementation-without-effects is called with collaborators
\* that answer as those of input.deps; output is what it returns or throws
PlaceOrderWithoutEffects ==
  /\ pc = "WithoutEffects"
  /\ output' = placeOrderWithoutEffects(
                 [checkProductCodeExists |-> [code \in ParsedCodes(input.order) |->
                                                input.deps.checkProductCodeExists],
                  checkAddressExists |->
                    [a \in {input.order.ShippingAddress, input.order.BillingAddress} |->
                       IF a = input.order.ShippingAddress
                       THEN AddressResponse(input.deps.checkShippingAddress, a)
                       ELSE AddressResponse(input.deps.checkBillingAddress, a)],
                  getProductPrice |-> [code \in ParsedCodes(input.order) |->
                                         input.deps.getProductPrice],
                  createOrderAcknowledgmentLetter |-> input.deps.createOrderAcknowledgmentLetter,
                  sendOrderAcknowledgment |-> input.deps.sendOrderAcknowledgment],
                 input.order)
  /\ pc' = "Returned"
  /\ UNCHANGED <<order, scope, validatedOrder, pricedOrder, calls, addressResponses, result,
                 input, instances>>

WithoutEffectsSpec == InitWithoutEffects /\ [][PlaceOrderWithoutEffects]_vars

-----------------------------------------------------------------------------
(* The transaction helper tx: libs/postgresql.ts.  input says how each       *)
(* operation of the pool, of the client and the task settles in this run;    *)
(* calls is the log of the operations issued; a step is the code that runs   *)
(* between two awaits.                                                       *)

\* what the task resolves to, or that it rejects
TaskOutcomes == {Returns(<<"r1">>), Returns(<<"r2">>), Throw}

TxProfiles ==
  [connect : {"resolve", "reject"}, begin : {"resolve", "reject"}, task : TaskOutcomes,
   commit : {"resolve", "reject"}, rollback : {"resolve", "reject"}]

\* client.query(text), settling as out
Query(text, out) == Call("client.query", 0, <<text>>, out, Zero)

\* the operation is issued and the function suspends at its await
Await(op, next) ==
  /\ calls' = Append(calls, op)
  /\ pc' = next
  /\ result' = result

\* catch (e): ROLLBACK is issued
Catch(e) ==
  /\ Await(Query("ROLLBACK", input.rollback), "RollingBack")
  /\ scope' = [e |-> e]

\* finally: the client is released, then the promise settles with the outcome
Finally(outcome) ==
  /\ calls' = Append(calls, Call("client.release", 0, <<>>, "resolve", Zero))
  /\ pc' = "Settled"
  /\ result' = outcome

InitTx ==
  /\ input \in TxProfiles
  /\ pc = "Tx"
  /\ calls = <<>>
  /\ scope = None
  /\ result = None
  /\ order = None
  /\ validatedOrder = None
  /\ pricedOrder = None
  /\ addressResponses = <<>>
  /\ output = None
  /\ instances = <<>>

\* the TaskEither is run: pool.connect()
Tx ==
  /\ pc = "Tx"
  /\ Await(Call("pool.connect", 0, <<>>, input.connect, Zero), "Connecting")
  /\ UNCHANGED <<order, scope, validatedOrder, pricedOrder, addressResponses, input, output,
                 instances>>

\* pool.connect() settled: outside the try, a rejection is the promise's; else BEGIN
ConnectSettled ==
  /\ pc = "Connecting"
  /\ IF input.connect = "reject"
     THEN /\ calls' = calls
          /\ pc' = "Settled"
          /\ result' = Throw
     ELSE Await(Query("BEGIN", input.begin), "Beginning")
  /\ UNCHANGED <<order, scope, validatedOrder, pricedOrder, addressResponses, input, output,
                 instances>>

\* BEGIN settled: the task is called
BeginSettled ==
  /\ pc = "Beginning"
  /\ IF input.begin = "reject"
     THEN Catch(<<"Error: BEGIN">>)
     ELSE /\ Await(Call("task", 0, <<>>,
                        IF input.task.tag = "Throw" THEN "reject" ELSE "resolve", Zero), "Running")
          /\ scope' = scope
  /\ UNCHANGED <<order, validatedOrder, pricedOrder, addressResponses, input, output, instances>>

\* the task settled: ret is kept and COMMIT issued
TaskSettled ==
  /\ pc = "Running"
  /\ IF input.task.tag = "Throw"
     THEN Catch(<<"Error: task">>)
     ELSE /\ Await(Query("COMMIT", input.commit), "Committing")
          /\ scope' = [ret |-> input.task.value]
  /\ UNCHANGED <<order, validatedOrder, pricedOrder, addressResponses, input, output, instances>>

\* COMMIT settled: return E.right(ret)
CommitSettled ==
  /\ pc = "Committing"
  /\ IF input.commit = "reject"
     THEN Catch(<<"Error: COMMIT">>)
     ELSE /\ Finally(Right(scope.ret))
          /\ scope' = scope
  /\ UNCHANGED <<order, validatedOrder, pricedOrder, addressResponses, input, output, instances>>

\* ROLLBACK settled: return E.left(Error(`cause: ${e}`)); a rejection of the
\* ROLLBACK leaves the catch block as the promise's rejection
RollbackSettled ==
  /\ pc = "RollingBack"
  /\ Finally(IF input.rollback = "reject" THEN Throw ELSE errorFrom(<<"cause: ">> \o scope.e))
  /\ UNCHANGED <<order, scope, validatedOrder, pricedOrder, addressResponses, input, output,
                 instances>>

NextTx ==
  \/ Tx
  \/ ConnectSettled
  \/ BeginSettled
  \/ TaskSettled
  \/ CommitSettled
  \/ RollbackSettled

TxSpec == InitTx /\ [][NextTx]_vars

-----------------------------------------------------------------------------
(* Properties *)

Succeeded == pc = "Done" /\ result.tag = "Right"

HasEvent(tag) == \E i \in 1..Len(result.right) : result.right[i].tag = tag

CallsOf(fn) == SelectSeq(calls, LAMBDA c : c.fn = fn)

\* the sum of a list of integers
RECURSIVE SumOf(_)
SumOf(values) == IF values = <<>> THEN 0 ELSE Head(values) + SumOf(Tail(values))

\* a number in units of 10^-p, to the nearest unit: the decimal of p decimals
\* that the number stands for
DecimalUnits(num, p) ==
  IF num.exp >= 0 THEN IntOf(BigShiftLeft(num.mant, num.exp)) * (10^p) ELSE Scaled(num, p)

\* the number that stands for the decimal n / 10^4
Decimal(n) == Ratio(n, 10000)

\* C1: the event list of a priced order holds a BillableOrderPlaced event if
\* and only if the order's amountToBill is greater than 0; an amount of exactly
\* 0 gives OrderPlaced and no BillableOrderPlaced.
C1_BillableIffPositive ==
  Succeeded =>
    /\ HasEvent("BillableOrderPlaced") <=> Less(Zero, pricedOrder.AmountToBill)
    /\ pricedOrder.AmountToBill = Zero =>
         HasEvent("OrderPlaced") /\ ~HasEvent("BillableOrderPlaced")

\* a zero-price product: lines, but nothing to bill, and no billing event
C1_Witness ==
  /\ Succeeded
  /\ Len(pricedOrder.Lines) > 0
  /\ pricedOrder.AmountToBill = Zero
  /\ ~HasEvent("BillableOrderPlaced")

\* C2: for an order validated and priced, the event list holds an
\* OrderAcknowledgmentSent event if and only if sendAcknowledgment returned Sent.
C2_AcknowledgmentIffSent ==
  Succeeded =>
    (HasEvent("OrderAcknowledgmentSent")
       <=> \E i \in 1..Len(calls) : calls[i].fn = "sendAcknowledgment" /\ calls[i].out = "Sent")

C2_Witness ==
  /\ Succeeded
  /\ HasEvent("OrderAcknowledgmentSent")
  /\ \E i \in 1..Len(calls) : calls[i].fn = "sendAcknowledgment" /\ calls[i].out = "Sent"

EventRank(event) ==
  CASE event.tag = "OrderAcknowledgmentSent" -> 1
    [] event.tag = "OrderPlaced" -> 2
    [] event.tag = "BillableOrderPlaced" -> 3

\* C3: an event list has 1, 2 or 3 events, exactly one of them OrderPlaced, at
\* most one acknowledgment and at most one billable event, in the order
\* acknowledgment, OrderPlaced, billable.
C3_EventListShape ==
  Succeeded =>
    /\ Len(result.right) \in 1..3
    /\ Cardinality({i \in 1..Len(result.right) : result.right[i].tag = "OrderPlaced"}) = 1
    /\ Cardinality({i \in 1..Len(result.right) : result.right[i].tag = "OrderAcknowledgmentSent"}) <= 1
    /\ Cardinality({i \in 1..Len(result.right) : result.right[i].tag = "BillableOrderPlaced"}) <= 1
    /\ \A i, j \in 1..Len(result.right) :
         i < j => EventRank(result.right[i]) < EventRank(result.right[j])

C3_Witness ==
  /\ Succeeded
  /\ Len(result.right) = 3
  /\ result.right[1].tag = "OrderAcknowledgmentSent"
  /\ result.right[3].tag = "BillableOrderPlaced"

\* the price getProductPrice returned for line i
PriceReturned(i) == CallsOf("getProductPrice")[i].val

\* the line prices of the priced order, as decimals in units of 10^-4
DecimalLinePrices ==
  [i \in 1..Len(pricedOrder.Lines) |-> DecimalUnits(pricedOrder.Lines[i].LinePrice, 4)]

\* C4: in every PricedOrder, amountToBill is the sum of the line prices and
\* lies in [0, 10000], and every line price is the price getProductPrice
\* returned for the line's product code times the quantity, and lies in
\* [0, 1000]; the amounts are decimals, and the sum and the products are
\* those of decimal arithmetic.
C4_AmountIsSumOfLinePrices ==
  pricedOrder # None =>
    /\ pricedOrder.AmountToBill = Decimal(SumOf(DecimalLinePrices))
    /\ ~Less(pricedOrder.AmountToBill, Zero)
    /\ ~Less(Num(10000), pricedOrder.AmountToBill)
    /\ \A i \in 1..Len(pricedOrder.Lines) :
         /\ CallsOf("getProductPrice")[i].arg = pricedOrder.Lines[i].ProductCode.value
         /\ pricedOrder.Lines[i].LinePrice
              = Decimal(DecimalUnits(pricedOrder.Lines[i].Quantity.value, 2)
                        * DecimalUnits(PriceReturned(i), 2))
         /\ ~Less(pricedOrder.Lines[i].LinePrice, Zero)
         /\ ~Less(Num(1000), pricedOrder.Lines[i].LinePrice)

-----------------------------------------------------------------------------
(* The sub-validations of the order, one by one, in the order the            *)
(* specification lists them; what a collaborator answered is read off the    *)
(* log.                                                                      *)

CodeCheck(i) ==
  LET created == MapLeft(CommonCreateProductCode("ProductCode", order.Lines[i].ProductCode),
                         "ValidationError")
  IN IF IsRight(created)
        /\ \E k \in 1..Len(calls) :
             calls[k].fn = "checkProductCodeExists" /\ calls[k].idx = i /\ calls[k].out = "false"
     THEN Left(ValidationError(<<"Invalid: ">> \o order.Lines[i].ProductCode))
     ELSE created

QuantityCheck(i) ==
  IF IsRight(CodeCheck(i))
  THEN toOrderQuantity(CodeCheck(i).right, order.Lines[i].Quantity)
  ELSE Right(Zero)

LineChecks(i) == <<toOrderLineId(order.Lines[i].OrderLineId), CodeCheck(i), QuantityCheck(i)>>

AddressChecks(k) ==
  IF Len(addressResponses) < k \/ addressResponses[k].tag = "Throw" THEN <<>>
  ELSE IF addressResponses[k].tag = "Left" THEN <<toCheckedAddress(addressResponses[k])>>
  ELSE LET a == addressResponses[k].right
       IN <<MapLeft(createString("AddressLine1", String50MaxLen, a.AddressLine1), "ValidationError"),
            MapLeft(createStringOption("AddressLine2", String50MaxLen, a.AddressLine2), "ValidationError"),
            MapLeft(createStringOption("AddressLine3", String50MaxLen, a.AddressLine3), "ValidationError"),
            MapLeft(createStringOption("AddressLine4", String50MaxLen, a.AddressLine4), "ValidationError"),
            MapLeft(createString("City", String50MaxLen, a.City), "ValidationError"),
            MapLeft(createLike("ZipCode", "d{5}", a.ZipCode), "ValidationError")>>

SubValidations ==
  <<toOrderId(order.OrderId),
    MapLeft(createString("FirstName", String50MaxLen, order.CustomerInfo.FirstName), "ValidationError"),
    MapLeft(createString("LastName", String50MaxLen, order.CustomerInfo.LastName), "ValidationError"),
    MapLeft(createLike("EmailAddress", ".+@.+", order.CustomerInfo.EmailAddress), "ValidationError")>>
  \o Flatten([i \in 1..Len(order.Lines) |-> LineChecks(i)])
  \o AddressChecks(1)
  \o AddressChecks(2)

Failing(checks) == {i \in 1..Len(checks) : IsLeft(checks[i])}

\* every sub-validation of SubValidations has run: the run is past the
\* synchronous part and not between the answer of an address check and the
\* toAddress of the address it returned
ValidationsRun == pc \notin {"Unvalidated", Converting(1), Converting(2)}

FirstFailing(checks) == checks[CHOOSE i \in Failing(checks) : \A j \in Failing(checks) : i <= j]

\* C5: validateOrder is fail-fast in the order order id, customer info (first
\* name, last name, email), lines in input order (line id, product code,
\* quantity), shipping address, billing address: the error returned is the one
\* ValidationError of the earliest failing sub-validation; when none fails no
\* validation error is returned.
C5_EarliestFailureReturned ==
  (ValidationsRun /\ result.tag # "Throw") =>
    IF Failing(SubValidations) # {}
    THEN /\ pc = "Done"
         /\ validatedOrder = None
         /\ result = FirstFailing(SubValidations)
         /\ result.left.kind = "ValidationError"
    ELSE result.tag = "Left" => validatedOrder # None

\* the first name, the email address and both lines fail; the first name's
\* error is the one returned
C5_Witness ==
  /\ pc = "Done"
  /\ Len(order.Lines) = 2
  /\ IsRight(SubValidations[1])
  /\ IsLeft(SubValidations[2])
  /\ IsLeft(SubValidations[4])
  /\ Failing(LineChecks(1)) # {}
  /\ Failing(LineChecks(2)) # {}
  /\ result = SubValidations[2]

\* lines whose processing fails in validation, and in pricing
FailingLines == {i \in 1..Len(order.Lines) : Failing(LineChecks(i)) # {}}

OverpricedLines ==
  {i \in 1..Len(CallsOf("getProductPrice")) :
     Less(PriceMax, Times(validatedOrder.Lines[i].Quantity.value, PriceReturned(i)))}

NoThrow(fn) == \A k \in 1..Len(calls) : calls[k].fn = fn => calls[k].out # "throw"

LinesValidated ==
  /\ pc # "Unvalidated"
  /\ NoThrow("checkProductCodeExists")
  /\ \A i \in 1..4 : IsRight(SubValidations[i])

LinesPriced ==
  /\ validatedOrder # None
  /\ pc \in {"Priced", "Done"}
  /\ NoThrow("getProductPrice")

\* C6 as stated: after the first line that fails validation
\* checkProductCodeExists is called for no later line, and after the first line
\* whose price multiplication fails getProductPrice is called for no later line.
C6_NoLaterLineProcessed ==
  /\ LinesValidated =>
       \A i \in FailingLines : \A k \in 1..Len(calls) :
         calls[k].fn = "checkProductCodeExists" => calls[k].idx <= i
  /\ LinesPriced =>
       \A i \in OverpricedLines : \A k \in 1..Len(calls) :
         calls[k].fn = "getProductPrice" => calls[k].idx <= i

\* validateOrder returned a Left: the validation step failed
ValidationFailed == pc = "Done" /\ validatedOrder = None /\ result.tag = "Left"

\* C7: whenever validation fails (in particular when checkAddressExists reports
\* address not found), placeOrder returns a ValidationError, there are no
\* events, and getProductPrice, createAcknowledgmentLetter and
\* sendAcknowledgment are never called.
C7_ValidationFailureStopsPipeline ==
  ValidationFailed =>
    /\ result.left.kind = "ValidationError"
    /\ pricedOrder = None
    /\ CallsOf("getProductPrice") = <<>>
    /\ CallsOf("createAcknowledgmentLetter") = <<>>
    /\ CallsOf("sendAcknowledgment") = <<>>

\* the shipping address is reported not found
C7_Witness ==
  /\ ValidationFailed
  /\ Len(addressResponses) = 1
  /\ addressResponses[1] = Left("AddressNotFound")
  /\ result = Left(ValidationError(<<"Address not found">>))
  /\ Len(order.Lines) > 0

\* price times quantity of every line, from the prices the lookup returned:
\* the decimal product of the two decimals, in units of 10^-4
LineProducts ==
  [i \in 1..Len(validatedOrder.Lines) |->
     DecimalUnits(validatedOrder.Lines[i].Quantity.value, 2) * DecimalUnits(PriceReturned(i), 2)]

\* C8: priceOrder returns a PricingError, and placeOrder that error and no
\* events, whenever some line's price times quantity exceeds 1000 or the sum of
\* the line prices exceeds 10000; otherwise it returns a PricedOrder.  The
\* amounts are decimals, and the products and the sum those of decimal
\* arithmetic.
C8_PricingErrorIffOutOfBounds ==
  LinesPriced =>
    IF \/ \E i \in 1..Len(LineProducts) : LineProducts[i] > 1000 * 10000
       \/ SumOf(LineProducts) > 10000 * 10000
    THEN /\ pc = "Done"
         /\ result.tag = "Left"
         /\ result.left.kind = "PricingError"
         /\ pricedOrder = None
    ELSE /\ pricedOrder # None
         /\ Len(pricedOrder.Lines) = Len(validatedOrder.Lines)

\* sendAcknowledgment returned, with Sent or with NotSent
SendReported ==
  \E k \in 1..Len(calls) : calls[k].fn = "sendAcknowledgment" /\ calls[k].out \in {"Sent", "NotSent"}

\* C9: the acknowledgment step never contributes to the error channel: for an
\* order validated and priced, placeOrder returns the event list, OrderPlaced
\* in it, whether sendAcknowledgment reports Sent or NotSent.
C9_AcknowledgmentNeverFails ==
  (pricedOrder # None /\ SendReported) =>
    /\ pc = "Done"
    /\ result.tag = "Right"
    /\ HasEvent("OrderPlaced")

\* the delivery failed and the order is placed all the same
C9_Witness ==
  /\ Succeeded
  /\ \E k \in 1..Len(calls) : calls[k].fn = "sendAcknowledgment" /\ calls[k].out = "NotSent"
  /\ HasEvent("OrderPlaced")
  /\ ~HasEvent("OrderAcknowledgmentSent")

\* C10: no exception escapes the pipeline: whatever the collaborators do, a
\* collaborator that raises included, a run ends with the events or with a
\* tagged error.
C10_NoExceptionEscapes ==
  pc = "Done" => result.tag \in {"Right", "Left"}

-----------------------------------------------------------------------------
(* The sequence of the steps *)

\* the step a collaborator is called in: Validate, Price, Acknowledge (the
\* letter, then the delivery)
StepRank(fn) ==
  CASE fn = "checkProductCodeExists" -> 1
    [] fn = "checkAddressExists" -> 1
    [] fn = "getProductPrice" -> 2
    [] fn = "createAcknowledgmentLetter" -> 3
    [] fn = "sendAcknowledgment" -> 4

\* C11: within one run the steps execute in the sequence Validate, Price,
\* Acknowledge, Compose-events: every call of checkProductCodeExists and
\* checkAddressExists comes before every call of getProductPrice, these before
\* createAcknowledgmentLetter, it before sendAcknowledgment, and the event list
\* is made after sendAcknowledgment; a step starts only when the one before
\* it has finished, and none is entered again after a later one started.
C11_StepsInSequence ==
  /\ \A i, j \in 1..Len(calls) : i < j => StepRank(calls[i].fn) <= StepRank(calls[j].fn)
  /\ Len(CallsOf("createAcknowledgmentLetter")) <= 1
  /\ Len(CallsOf("sendAcknowledgment")) <= 1
  /\ CallsOf("getProductPrice") # <<>> =>
       validatedOrder # None /\ Len(CallsOf("checkAddressExists")) = 2
  /\ CallsOf("createAcknowledgmentLetter") # <<>> => pricedOrder # None
  /\ CallsOf("sendAcknowledgment") # <<>> => CallsOf("createAcknowledgmentLetter") # <<>>
  /\ Succeeded => calls[Len(calls)].fn = "sendAcknowledgment"

\* a run of two lines that called every collaborator and made the events
C11_Witness ==
  /\ Succeeded
  /\ Len(CallsOf("checkProductCodeExists")) = 2
  /\ Len(CallsOf("checkAddressExists")) = 2
  /\ Len(CallsOf("getProductPrice")) = 2
  /\ Len(CallsOf("createAcknowledgmentLetter")) = 1
  /\ Len(CallsOf("sendAcknowledgment")) = 1

-----------------------------------------------------------------------------
(* The constructors *)

Called(ctor) == pc = "Created" /\ input.ctor = ctor

IsDigit(c) == c \in {"0", "1", "2", "3", "4", "5", "6", "7", "8", "9"}

\* the letter followed by exactly n digits
LetterAndDigits(str, letter, n) ==
  /\ str # Undefined
  /\ Len(str) = n + 1
  /\ str[1] = letter
  /\ \A i \in 2..(n + 1) : IsDigit(str[i])

\* C12: createProductCode dispatches on the leading character: "W" followed
\* by exactly 4 digits succeeds as a WidgetCode, "G" followed by exactly 3
\* digits succeeds as a GizmoCode, and every other string ("X9999", "W123",
\* "W12345", "Wdddd") fails.
C12_ProductCodeDispatch ==
  Called("ProductCode") =>
    IF LetterAndDigits(input.arg, "W", 4) THEN output = Right(WidgetCode(input.arg))
    ELSE IF LetterAndDigits(input.arg, "G", 3) THEN output = Right(GizmoCode(input.arg))
    ELSE IsLeft(output)

\* the quantity is one the line's product code allows: a whole number of units
\* in [1, 1000] for a widget, a weight in [0.05, 100] for a gizmo
QuantityAllowed(productCodeType, num) ==
  IF productCodeType = "WidgetCode"
  THEN num.exp >= 0 /\ ~Less(num, Num(1)) /\ ~Less(Num(1000), num)
  ELSE ~Less(num, Ratio(5, 100)) /\ ~Less(Num(100), num)

\* C13: in every ValidatedOrderLine the quantity variant matches the product
\* code variant: a widget line carries a UnitQuantity, an integer in [1, 1000],
\* a gizmo line a KilogramQuantity in [0.05, 100]; a quantity outside the bound
\* its product code selects, a non-integer quantity on a widget line included,
\* makes validation fail.
C13_QuantityMatchesProductCode ==
  Called("ValidatedOrderLine") =>
    /\ IsRight(output) =>
         /\ output.right.Quantity.type
              = (IF output.right.ProductCode.type = "WidgetCode"
                 THEN "UnitQuantity" ELSE "KilogramQuantity")
         /\ QuantityAllowed(output.right.ProductCode.type, output.right.Quantity.value)
    /\ ~QuantityAllowed(IF input.arg.line.ProductCode = WidgetD THEN "WidgetCode" ELSE "GizmoCode",
                        input.arg.line.Quantity)
         => IsLeft(output)

-----------------------------------------------------------------------------
(* End-to-end scenario A *)

\* the collaborators of the scenario: the product exists, both addresses are
\* confirmed as given, the price is 10 per unit, nothing raises
ScenarioCollaborators ==
  /\ \A k \in 1..Len(calls) : calls[k].out \notin {"false", "throw"}
  /\ \A k \in 1..Len(calls) : calls[k].fn = "getProductPrice" => calls[k].val = Num(10)
  /\ \A k \in 1..Len(addressResponses) :
       addressResponses[k] = Right(IF k = 1 THEN order.ShippingAddress ELSE order.BillingAddress)

\* the events of the scenario: OrderPlaced and BillableOrderPlaced of amount
\* 30, after OrderAcknowledgmentSent when the sender reported Sent
ScenarioEvents ==
  /\ Succeeded
  /\ pricedOrder.Lines[1].LinePrice = Num(30)
  /\ pricedOrder.AmountToBill = Num(30)
  /\ LET sent == \E k \in 1..Len(calls) :
                   calls[k].fn = "sendAcknowledgment" /\ calls[k].out = "Sent"
         placed == IF sent THEN 2 ELSE 1
     IN /\ Len(result.right) = placed + 1
        /\ sent => result.right[1].tag = "OrderAcknowledgmentSent"
        /\ result.right[placed].tag = "OrderPlaced"
        /\ result.right[placed].AmountToBill = Num(30)
        /\ result.right[placed + 1].tag = "BillableOrderPlaced"
        /\ result.right[placed + 1].AmountToBill = Num(30)

\* C14: end-to-end scenario A: an otherwise valid order with one line (product
\* code "W1234", quantity 3), the product existing and a price of 10 per unit,
\* is priced to line price 30 and billing amount 30 and ends with the events
\* OrderPlaced (30) and BillableOrderPlaced (30), preceded by
\* OrderAcknowledgmentSent when the sender reports Sent.
C14_ScenarioA ==
  (order = OneLineOrder(<<"W", "1", "2", "3", "4">>) /\ pc = "Done" /\ ScenarioCollaborators)
    => ScenarioEvents

-----------------------------------------------------------------------------
(* The error variant of a validation failure *)

\* checkProductCodeExists answered false for a code that parsed
ProductNotFound ==
  \E k \in 1..Len(calls) : calls[k].fn = "checkProductCodeExists" /\ calls[k].out = "false"

\* checkAddressExists answered with one of its two errors
AddressRejected == \E k \in 1..Len(addressResponses) : addressResponses[k].tag = "Left"

\* C15: every failure of the validation step is reported as a ValidationError
\* and no partial ValidatedOrder is produced: a malformed field, a product
\* code that parses but that checkProductCodeExists does not know, and both
\* address errors (AddressNotFound, InvalidFormat) give Left(ValidationError),
\* never a RemoteServiceError or a PricingError.
C15_ValidationFailureIsValidationError ==
  /\ (ValidationsRun /\ result.tag # "Throw" /\ Failing(SubValidations) # {}) =>
       /\ pc = "Done"
       /\ result.tag = "Left"
       /\ result.left.kind = "ValidationError"
       /\ validatedOrder = None
  /\ (LinesValidated /\ ProductNotFound) =>
       /\ pc = "Done"
       /\ result.tag = "Left"
       /\ result.left.kind = "ValidationError"
       /\ validatedOrder = None
  /\ AddressRejected =>
       /\ pc = "Done"
       /\ result \in {Left(ValidationError(<<"Address not found">>)),
                      Left(ValidationError(<<"Address has bad format">>))}
       /\ validatedOrder = None
  /\ (validatedOrder = None /\ result.tag = "Left") => result.left.kind = "ValidationError"
  /\ validatedOrder # None => (Failing(SubValidations) = {} /\ ~ProductNotFound /\ ~AddressRejected)

\* the second line's code parses and the product does not exist
C15_Witness ==
  /\ LinesValidated
  /\ Len(order.Lines) = 2
  /\ Len(CallsOf("checkProductCodeExists")) = 2
  /\ CallsOf("checkProductCodeExists")[1].out = "true"
  /\ CallsOf("checkProductCodeExists")[2].out = "false"
  /\ result = Left(ValidationError(<<"Invalid: ">> \o order.Lines[2].ProductCode))

-----------------------------------------------------------------------------
(* Bounded strings *)

\* C16: String50.create, OrderId.create and OrderLineId.create (createString
\* with maxLen 50): a string of 1 to 50 characters succeeds with a value equal
\* to the input, a string of 51 or more characters fails, an empty or absent
\* string fails; a failure is a returned Left, never a thrown exception.
C16_BoundedString ==
  (pc = "Created" /\ input.ctor \in {"String50", "OrderId", "OrderLineId"}) =>
    /\ output.tag \in {"Right", "Left"}
    /\ IF input.arg # Undefined /\ Len(input.arg) >= 1 /\ Len(input.arg) <= 50
       THEN output = Right(input.arg)
       ELSE IsLeft(output)

\* a string of exactly 50 characters is accepted
C16_Witness ==
  /\ Called("String50")
  /\ Len(input.arg) = 50
  /\ output = Right(input.arg)

\* line k (2, 3 or 4) of an address
AddressLine(address, k) ==
  CASE k = 2 -> address.AddressLine2
    [] k = 3 -> address.AddressLine3
    [] k = 4 -> address.AddressLine4

\* C17: createStringOption(maxLen): an empty or absent input gives success
\* with the absent marker none, an input longer than maxLen gives failure, any
\* other input gives success with a present value wrapping that input; so an
\* address with absent lines 2 to 4 validates with those lines absent.
C17_OptionalString ==
  /\ Called("String50Option") =>
       IF input.arg = Undefined \/ input.arg = <<>> THEN output = Right(None)
       ELSE IF Len(input.arg) > 50 THEN IsLeft(output)
       ELSE output = Right(Some(input.arg))
  /\ Called("Address") =>
       /\ IsRight(output) =>
            \A k \in 2..4 :
              AddressLine(output.right, k)
                = (IF AddressLine(input.arg, k) \in {Undefined, <<>>}
                   THEN None ELSE Some(AddressLine(input.arg, k)))
       /\ ( /\ \A k \in 2..4 : AddressLine(input.arg, k) \in {Undefined, <<>>}
            /\ IsRight(String50Create(input.arg.AddressLine1))
            /\ IsRight(String50Create(input.arg.City))
            /\ IsRight(ZipCodeCreate(input.arg.ZipCode)) )
            => IsRight(output)

\* an address of a first line, a city and a zip code only
C17_Witness ==
  /\ Called("Address")
  /\ input.arg.AddressLine2 = <<>>
  /\ input.arg.AddressLine3 = Undefined
  /\ input.arg.AddressLine4 = Undefined
  /\ IsRight(output)
  /\ output.right.AddressLine2 = None
  /\ output.right.AddressLine3 = None
  /\ output.right.AddressLine4 = None

-----------------------------------------------------------------------------
(* Zip codes *)

\* exactly five digits
FiveDigits(str) ==
  /\ str # Undefined
  /\ Len(str) = 5
  /\ \A i \in 1..5 : IsDigit(str[i])

\* C18: ZipCode.create succeeds exactly for the strings of exactly 5 digits and
\* fails for every other string (empty, shorter or longer than 5 characters, or
\* holding a non-digit), so that an address passes validation only with a zip
\* code of 5 digits.
C18_ZipCodeFiveDigits ==
  /\ Called("ZipCode") => (IsRight(output) <=> FiveDigits(input.arg))
  /\ Called("Address") => (IsRight(output) => FiveDigits(input.arg.ZipCode))

-----------------------------------------------------------------------------
(* The order of the lines *)

\* the validated or priced line is the unvalidated line, field by field
SameLine(line, unvalidatedOrderLine) ==
  /\ line.OrderLineId = unvalidatedOrderLine.OrderLineId
  /\ line.ProductCode.value = unvalidatedOrderLine.ProductCode
  /\ line.Quantity.value = unvalidatedOrderLine.Quantity

\* lines is order.Lines, line by line
SameLines(lines) ==
  /\ Len(lines) = Len(order.Lines)
  /\ \A i \in 1..Len(lines) : SameLine(lines[i], order.Lines[i])

\* C19: validation and pricing keep the order lines an ordered sequence: the
\* i-th line of the ValidatedOrder, of the PricedOrder and of the OrderPlaced
\* event is the i-th line of the unvalidated order, with as many lines, none
\* dropped, duplicated or moved.
C19_LinesKeepTheirOrder ==
  /\ validatedOrder # None => SameLines(validatedOrder.Lines)
  /\ pricedOrder # None => SameLines(pricedOrder.Lines)
  /\ Succeeded =>
       \A k \in 1..Len(result.right) :
         result.right[k].tag = "OrderPlaced" =>
           (result.right[k].Lines = pricedOrder.Lines /\ SameLines(result.right[k].Lines))

\* an order of two different lines, placed
C19_Witness ==
  /\ Succeeded
  /\ Len(order.Lines) = 2
  /\ order.Lines[1] # order.Lines[2]
  /\ SameLines(validatedOrder.Lines)
  /\ SameLines(pricedOrder.Lines)
  /\ \E k \in 1..Len(result.right) :
       result.right[k].tag = "OrderPlaced" /\ SameLines(result.right[k].Lines)

-----------------------------------------------------------------------------
(* Independent instances *)

\* the calls the run has made are the first calls of the run alone, the
\* last one possibly still pending
CallsSoFar(made, alone) ==
  /\ Len(made) <= Len(alone)
  /\ \A k \in 1..Len(made) :
       \/ made[k] = alone[k]
       \/ k = Len(made) /\ made[k] = [alone[k] EXCEPT !.out = "pending"]

\* C20: pipeline instances are independent: with two or more orders processed
\* at once, their steps interleaved in any way (each suspending at its address
\* checks), every instance returns exactly the result it returns when run
\* alone with the same collaborator responses; the core holds no shared mutable
\* state through which one instance can affect another: the one object the
\* runs share, the scope of E.Do, is never written, and up to its end every
\* instance has made the collaborator calls it makes when run alone.
C20_InstancesIndependent ==
  DOMAIN instances # {} =>
    /\ scope[0] = EmptyObject
    /\ \A i \in DOMAIN instances :
         /\ instances[i].pc = "Done" =>
              /\ instances[i].result
                   = PlaceOrderAlone(instances[i].order, instances[i].deps).result
              /\ instances[i].calls
                   = PlaceOrderAlone(instances[i].order, instances[i].deps).calls
         /\ instances[i].pc # "Done" =>
              /\ instances[i].result = None
              /\ CallsSoFar(instances[i].calls,
                            PlaceOrderAlone(instances[i].order, instances[i].deps).calls)

\* instance 1 is suspended on its billing-address check, the call made and not
\* answered, while instance 2, of another order, has run from its start to its
\* events
C20_Witness ==
  /\ DOMAIN instances # {}
  /\ instances[1].pc = "AwaitingBillingAddress"
  /\ instances[1].calls[Len(instances[1].calls)].out = "pending"
  /\ instances[2].pc = "Done"
  /\ instances[2].result.tag = "Right"
  /\ instances[2].order # instances[1].order
  /\ instances[2].scope = 2
  /\ instances[2].result = PlaceOrderAlone(instances[2].order, instances[2].deps).result

-----------------------------------------------------------------------------
(* Email addresses *)

\* the string is present, not empty, and holds an "@"
HoldsAt(str) == str # Undefined /\ \E i \in 1..Len(str) : str[i] = "@"

\* a line terminator of ECMAScript: LF, CR, U+2028 or U+2029
IsLineTerminator(c) == c = "\n" \/ c = "\r" \/ c = "U+2028" \/ c = "U+2029"

\* the string holds an "@" between two characters, neither a line terminator
SeparatedByAt(str) ==
  /\ str # Undefined
  /\ \E i \in 1..Len(str) :
       /\ str[i] = "@"
       /\ i > 1 /\ ~IsLineTerminator(str[i - 1])
       /\ i < Len(str) /\ ~IsLineTerminator(str[i + 1])

\* C21 as stated: EmailAddress.create fails for an empty or absent input and
\* for an input without "@", and succeeds for every non-empty input that
\* holds an "@".
C21_EmailHoldsAt ==
  Called("EmailAddress") => (IsRight(output) <=> HoldsAt(input.arg))

\* C21 amended: EmailAddress.create fails for an empty or absent input and for
\* an input without "@", and succeeds, with the input as its value, exactly
\* for the inputs in which an "@" separates two parts: an "@" with a character
\* other than a line terminator (LF, CR, U+2028, U+2029) right before it and
\* right after it ("@", "a@", "@b" and "a@" followed by U+2028 fail).
C21_EmailSeparatedByAt ==
  Called("EmailAddress") =>
    /\ ~HoldsAt(input.arg) => IsLeft(output)
    /\ IF SeparatedByAt(input.arg) THEN output = Right(input.arg) ELSE IsLeft(output)

\* an "@" with nothing before it is refused
C21_Witness ==
  /\ Called("EmailAddress")
  /\ input.arg = <<"@", "a">>
  /\ IsLeft(output)

-----------------------------------------------------------------------------
(* The two phases of address validation *)

\* the address kept for address k: the shippingAddress or the billingAddress
\* of the scope
AddressKept(k) == IF k = 1 THEN scope.shippingAddress ELSE scope.billingAddress

\* address k passed both phases: toAddress returned it and it is in the scope
AddressPassed(k) ==
  (IF k = 1 THEN "shippingAddress" ELSE "billingAddress") \in DOMAIN scope

\* the checked address check k left in the scope
CheckedAddressHeld(k) ==
  IF k = 1 THEN scope.checkedShippingAddress ELSE scope.checkedBillingAddress

\* C22: address validation is two-phase for each address: the local format
\* re-validation (line 1, optional lines 2 to 4, city, zip) runs only after
\* checkAddressExists has succeeded, and on the CheckedAddress the check
\* returned; an address the remote check accepts but whose components violate
\* the local constraints makes validation fail with a ValidationError.  In
\* states: a call of checkAddressExists is answered before the next one is
\* made; as long as check k is not called or not answered, and when it has
\* answered with an error, there is no re-validated address k and no error of
\* a local constraint; after an answer with an address the scope first holds
\* that address as checked, and after toAddress either the re-validated
\* address, field by field the returned one, or the ValidationError of the
\* first constraint the returned address violates.
C22_AddressTwoPhase ==
  /\ Len(CallsOf("checkAddressExists")) \in {Len(addressResponses), Len(addressResponses) + 1}
  /\ Len(CallsOf("checkAddressExists")) = Len(addressResponses) + 1
       <=> pc \in {Awaiting(1), Awaiting(2)}
  /\ \A k \in 1..2 :
       /\ pc \in {Checking(k), Awaiting(k)} =>
            /\ Len(addressResponses) = k - 1
            /\ ~AddressPassed(k)
            /\ result = None
       /\ AddressPassed(k) =>
            /\ Len(addressResponses) >= k
            /\ addressResponses[k].tag = "Right"
  /\ \A k \in 1..Len(addressResponses) :
       LET response == addressResponses[k]
       IN /\ CallsOf("checkAddressExists")[k].out = AddressOutcome(response)
          /\ response.tag = "Left" =>
               /\ pc = "Done"
               /\ ~AddressPassed(k)
               /\ result \in {Left(ValidationError(<<"Address not found">>)),
                              Left(ValidationError(<<"Address has bad format">>))}
          /\ (response.tag = "Right" /\ pc = Converting(k)) =>
               /\ CheckedAddressHeld(k) = response.right
               /\ ~AddressPassed(k)
               /\ result = None
          /\ (response.tag = "Right" /\ pc # Converting(k) /\ Failing(AddressChecks(k)) # {}) =>
               /\ pc = "Done"
               /\ ~AddressPassed(k)
               /\ result = FirstFailing(AddressChecks(k))
               /\ result.left.kind = "ValidationError"
               /\ validatedOrder = None
          /\ (response.tag = "Right" /\ pc # Converting(k) /\ Failing(AddressChecks(k)) = {}) =>
               /\ AddressPassed(k)
               /\ AddressKept(k).AddressLine1 = response.right.AddressLine1
               /\ AddressKept(k).City = response.right.City
               /\ AddressKept(k).ZipCode = response.right.ZipCode
               /\ \A n \in 2..4 :
                    AddressLine(AddressKept(k), n)
                      = (IF AddressLine(response.right, n) \in {Undefined, <<>>}
                         THEN None ELSE Some(AddressLine(response.right, n)))

\* the shipping address is well formed and the check accepts it, but the
\* address the check returns has a second line of 51 characters
C22_Witness ==
  /\ pc = "Done"
  /\ order.ShippingAddress = GoodAddress
  /\ addressResponses = <<Right(LongLine2Address)>>
  /\ result = Left(ValidationError(<<"AddressLine2", " ", "must not be more than ", "50",
                                      " chars">>))

-----------------------------------------------------------------------------
(* The response of the boundary *)

\* the human-readable message of an error of the pipeline
MessageOf(err) ==
  IF err.kind = "RemoteServiceError"
  THEN err.service.name \o <<": ">> \o err.exception.message
  ELSE err.message

\* C23: at the boundary every result is mapped to a response.  A Left error
\* gives an error response whose body is a code/message pair, the code naming
\* the error's variant (ValidationError, PricingError or RemoteServiceError) and
\* the message being the error's message; a Right event list gives a 200
\* response with one event DTO per event, in the same order, each under the
\* tag of its event.
C23_ResponseForEveryResult ==
  Called("HttpResponse") =>
    IF input.arg.tag = "Left"
    THEN /\ output.httpStatusCode # 200
         /\ DOMAIN output.body = {"code", "message"}
         /\ output.body.code = input.arg.left.kind
         /\ output.body.message = MessageOf(input.arg.left)
    ELSE /\ output.httpStatusCode = 200
         /\ Len(output.body) = Len(input.arg.right)
         /\ \A i \in 1..Len(input.arg.right) :
              DOMAIN output.body[i] = {input.arg.right[i].tag}

-----------------------------------------------------------------------------
(* The calls of the acknowledgment collaborators *)

\* the positions in the log of the calls of fn
CallPositions(fn) == {k \in 1..Len(calls) : calls[k].fn = fn}

\* C24: the acknowledgment collaborators are called at most once per run and
\* only for an order that was priced.  In a run that ends in success
\* createAcknowledgmentLetter and sendAcknowledgment are each called exactly
\* once, the letter before the send, the acknowledgment addressed to the email
\* address of the priced order's customer; in a run that ends in a
\* ValidationError or a PricingError neither is called.
C24_AcknowledgmentOnlyForPricedOrder ==
  /\ Cardinality(CallPositions("createAcknowledgmentLetter")) <= 1
  /\ Cardinality(CallPositions("sendAcknowledgment")) <= 1
  /\ CallPositions("createAcknowledgmentLetter") \cup CallPositions("sendAcknowledgment") # {}
       => pricedOrder # None
  /\ Succeeded =>
       /\ Cardinality(CallPositions("createAcknowledgmentLetter")) = 1
       /\ Cardinality(CallPositions("sendAcknowledgment")) = 1
       /\ \A l \in CallPositions("createAcknowledgmentLetter"),
             d \in CallPositions("sendAcknowledgment") :
            /\ l < d
            /\ calls[d].arg = pricedOrder.CustomerInfo.emailAddress
  /\ (pc = "Done" /\ result.tag = "Left") =>
       /\ result.left.kind \in {"ValidationError", "PricingError"}
       /\ CallPositions("createAcknowledgmentLetter") = {}
       /\ CallPositions("sendAcknowledgment") = {}

\* a run that succeeded although the delivery was reported NotSent, and whose
\* log holds the pricing calls before the letter
C24_Witness ==
  /\ Succeeded
  /\ Len(pricedOrder.Lines) = 2
  /\ \E l \in CallPositions("createAcknowledgmentLetter") :
       /\ calls[l + 1].fn = "sendAcknowledgment"
       /\ calls[l + 1].out = "NotSent"
       /\ calls[l - 1].fn = "getProductPrice"

-----------------------------------------------------------------------------
(* The calls of checkAddressExists *)

\* the positions in the log of the check of the shipping address (k = 1) and
\* of the billing address (k = 2)
AddressCheckPositions(k) == {p \in CallPositions("checkAddressExists") : calls[p].idx = k}

\* order id, customer info or a line fails validation
FieldsFail == Failing(SubSeq(SubValidations, 1, 4)) # {} \/ FailingLines # {}

\* the check of the shipping address did not confirm the address
ShippingCheckFailed == \E p \in AddressCheckPositions(1) : calls[p].out # "Right"

\* the address the shipping check returned fails a constraint of Address
ShippingAddressMalformed ==
  /\ Len(addressResponses) >= 1
  /\ addressResponses[1].tag = "Right"
  /\ Failing(AddressChecks(1)) # {}

\* C25: checkAddressExists is called at most twice per run and never retried,
\* the check of the shipping address strictly before the check of the billing
\* address; it is not called at all when order id, customer info or an order
\* line fails validation, and the billing address is not checked when the
\* check of the shipping address fails or the address it returned fails the
\* format validation.
C25_AddressChecksInOrder ==
  /\ Cardinality(CallPositions("checkAddressExists")) <= 2
  /\ CallPositions("checkAddressExists") = AddressCheckPositions(1) \cup AddressCheckPositions(2)
  /\ Cardinality(AddressCheckPositions(1)) <= 1
  /\ Cardinality(AddressCheckPositions(2)) <= 1
  /\ \A b \in AddressCheckPositions(2) : \E a \in AddressCheckPositions(1) : a < b
  /\ FieldsFail => CallPositions("checkAddressExists") = {}
  /\ (ShippingCheckFailed \/ ShippingAddressMalformed) => AddressCheckPositions(2) = {}

\* both addresses were checked, after two lines were validated, and the
\* billing address was not found
C25_Witness ==
  /\ pc = "Done"
  /\ Len(order.Lines) = 2
  /\ \E a \in AddressCheckPositions(1), b \in AddressCheckPositions(2) :
       /\ b = a + 1
       /\ calls[a].out = "Right"
       /\ calls[b].out = "AddressNotFound"

-----------------------------------------------------------------------------
(* The order without lines *)

\* order id and customer info are valid, both addresses were confirmed and
\* what the check returned passes the format validation
HeaderValid ==
  /\ Failing(SubSeq(SubValidations, 1, 4)) = {}
  /\ Len(addressResponses) = 2
  /\ \A k \in 1..2 : addressResponses[k].tag = "Right" /\ Failing(AddressChecks(k)) = {}

\* C26: an order with an empty list of lines is accepted.  If its order id,
\* customer info and both addresses are valid, validation and pricing succeed
\* without a call of checkProductCodeExists or getProductPrice, amountToBill is
\* 0, and the output is OrderPlaced with no lines and no BillableOrderPlaced,
\* preceded by OrderAcknowledgmentSent when the sender reports Sent.
C26_EmptyOrderAccepted ==
  (pc = "Done" /\ order.Lines = <<>> /\ HeaderValid) =>
    /\ CallPositions("checkProductCodeExists") = {}
    /\ CallPositions("getProductPrice") = {}
    /\ validatedOrder # None
    /\ pricedOrder # None
    /\ pricedOrder.AmountToBill = Zero
    /\ pricedOrder.Lines = <<>>
    /\ SendReported =>
         /\ result.tag = "Right"
         /\ result.right =
              (IF \E p \in CallPositions("sendAcknowledgment") : calls[p].out = "Sent"
               THEN <<OrderAcknowledgmentSent(pricedOrder.OrderId,
                                              pricedOrder.CustomerInfo.emailAddress)>>
               ELSE <<>>)
              \o <<OrderPlaced(pricedOrder.OrderId, pricedOrder.CustomerInfo,
                               pricedOrder.ShippingAddress, pricedOrder.BillingAddress, Zero, <<>>)>>

\* the order without lines ended in the acknowledgment and OrderPlaced
C26_Witness ==
  /\ Succeeded
  /\ order.Lines = <<>>
  /\ HeaderValid
  /\ Len(result.right) = 2
  /\ result.right[1].tag = "OrderAcknowledgmentSent"
  /\ result.right[2].tag = "OrderPlaced"
  /\ result.right[2].Lines = <<>>
  /\ result.right[2].AmountToBill = Zero

-----------------------------------------------------------------------------
(* The events as snapshots of the priced order *)

\* the events of the result carrying the tag
EventsOf(tag) == {i \in 1..Len(result.right) : result.right[i].tag = tag}

\* C27: all events of one output list are consistent snapshots of the same
\* priced order.  OrderPlaced carries the priced order's order id, customer
\* info, both addresses, amountToBill and lines unchanged; BillableOrderPlaced,
\* when present, carries the same order id, the priced order's billing address
\* and the same amountToBill as OrderPlaced; OrderAcknowledgmentSent, when
\* present, carries the same order id and the customer's email address.
C27_EventsAreSnapshots ==
  Succeeded =>
    /\ EventsOf("OrderPlaced") # {}
    /\ \A i \in EventsOf("OrderPlaced") :
         /\ result.right[i].OrderId = pricedOrder.OrderId
         /\ result.right[i].CustomerInfo = pricedOrder.CustomerInfo
         /\ result.right[i].ShippingAddress = pricedOrder.ShippingAddress
         /\ result.right[i].BillingAddress = pricedOrder.BillingAddress
         /\ result.right[i].AmountToBill = pricedOrder.AmountToBill
         /\ result.right[i].Lines = pricedOrder.Lines
    /\ \A i \in EventsOf("BillableOrderPlaced"), j \in EventsOf("OrderPlaced") :
         /\ result.right[i].OrderId = result.right[j].OrderId
         /\ result.right[i].BillingAddress = pricedOrder.BillingAddress
         /\ result.right[i].AmountToBill = result.right[j].AmountToBill
    /\ \A i \in EventsOf("OrderAcknowledgmentSent"), j \in EventsOf("OrderPlaced") :
         /\ result.right[i].OrderId = result.right[j].OrderId
         /\ result.right[i].EmailAddress = pricedOrder.CustomerInfo.emailAddress

\* the three events of an order of two lines whose addresses differ
C27_Witness ==
  /\ Succeeded
  /\ EventsOf("OrderAcknowledgmentSent") = {1}
  /\ EventsOf("OrderPlaced") = {2}
  /\ EventsOf("BillableOrderPlaced") = {3}
  /\ Len(result.right[2].Lines) = 2
  /\ result.right[2].ShippingAddress # result.right[2].BillingAddress
  /\ Less(Zero, result.right[3].AmountToBill)

-----------------------------------------------------------------------------
(* What pricing leaves alone *)

\* C28: pricing changes nothing it was given.  The PricedOrder returned by
\* priceOrder has the order id, customer info, shipping address and billing
\* address of the ValidatedOrder, and each PricedOrderLine has the order-line
\* id, product code and quantity of the ValidatedOrderLine at its position;
\* only linePrice and amountToBill are added.
C28_PricingPreservesOrder ==
  pricedOrder # None =>
    /\ DOMAIN pricedOrder = DOMAIN validatedOrder \cup {"AmountToBill"}
    /\ pricedOrder.OrderId = validatedOrder.OrderId
    /\ pricedOrder.CustomerInfo = validatedOrder.CustomerInfo
    /\ pricedOrder.ShippingAddress = validatedOrder.ShippingAddress
    /\ pricedOrder.BillingAddress = validatedOrder.BillingAddress
    /\ Len(pricedOrder.Lines) = Len(validatedOrder.Lines)
    /\ \A i \in 1..Len(validatedOrder.Lines) :
         /\ DOMAIN pricedOrder.Lines[i] = DOMAIN validatedOrder.Lines[i] \cup {"LinePrice"}
         /\ pricedOrder.Lines[i].OrderLineId = validatedOrder.Lines[i].OrderLineId
         /\ pricedOrder.Lines[i].ProductCode = validatedOrder.Lines[i].ProductCode
         /\ pricedOrder.Lines[i].Quantity = validatedOrder.Lines[i].Quantity

\* a priced order of a widget line and a gizmo line, its two addresses
\* different
C28_Witness ==
  /\ pricedOrder # None
  /\ Len(pricedOrder.Lines) = 2
  /\ pricedOrder.Lines[1].ProductCode.type = "WidgetCode"
  /\ pricedOrder.Lines[2].ProductCode.type = "GizmoCode"
  /\ Less(Zero, pricedOrder.Lines[1].LinePrice)
  /\ pricedOrder.ShippingAddress # pricedOrder.BillingAddress
  /\ Less(Zero, pricedOrder.AmountToBill)

-----------------------------------------------------------------------------
(* The transaction helper *)

\* the operation logged at position k: the text of a query, else the function
TxOp(k) == IF calls[k].fn = "client.query" THEN calls[k].arg[1] ELSE calls[k].fn

TxPositions(op) == {k \in 1..Len(calls) : TxOp(k) = op}

\* BEGIN, the task or COMMIT was issued and failed
TxFailed ==
  \E k \in TxPositions("BEGIN") \cup TxPositions("task") \cup TxPositions("COMMIT") :
    calls[k].out = "reject"

\* C29: once pool.connect has succeeded, tx issues BEGIN, then runs the task,
\* then issues COMMIT, in that order; it returns Right(result) only if all
\* three succeeded, and then issues no ROLLBACK; if BEGIN, the task or COMMIT
\* fails it issues ROLLBACK and returns Left(Error); on every path, a failing
\* ROLLBACK included, the client is released exactly once and never before the
\* last query.
C29_TxCommitsOrRollsBack ==
  /\ \A k \in TxPositions("client.release") : k = Len(calls)
  /\ \A b \in TxPositions("BEGIN"), t \in TxPositions("task") : b < t
  /\ \A t \in TxPositions("task"), c \in TxPositions("COMMIT") : t < c
  /\ \A c \in TxPositions("COMMIT") : TxPositions("task") # {}
  /\ \A t \in TxPositions("task") : TxPositions("BEGIN") # {}
  /\ (pc = "Settled" /\ input.connect = "resolve") =>
       /\ Cardinality(TxPositions("client.release")) = 1
       /\ Cardinality(TxPositions("BEGIN")) = 1
       /\ result.tag = "Right" =>
            /\ ~TxFailed
            /\ Cardinality(TxPositions("task")) = 1
            /\ Cardinality(TxPositions("COMMIT")) = 1
            /\ TxPositions("ROLLBACK") = {}
            /\ result.right = input.task.value
       /\ TxFailed =>
            /\ Cardinality(TxPositions("ROLLBACK")) = 1
            /\ result.tag = "Left"

-----------------------------------------------------------------------------
(* The two pipelines *)

\* what the Result-based placeOrder resolves to for the same order, its
\* collaborators answering the same
ResultBased == PlaceOrderAlone(input.order, input.deps).result

\* C30: the exception-based pipeline of implementation-without-effects accepts
\* exactly the orders the Result-based placeOrder accepts, given equivalent
\* collaborators: where the Result-based pipeline returns an event list the
\* exception-based pipeline returns the same event list, and where the
\* Result-based pipeline returns an error the exception-based pipeline throws.
C30_PipelinesAgree ==
  pc = "Returned" =>
    /\ ResultBased.tag = "Right" => output = ResultBased
    /\ ResultBased.tag = "Left" => output.tag = "Throw"
    /\ ResultBased.tag \in {"Right", "Left"}

\* both pipelines place an order of two lines, with the same three events
C30_Witness ==
  /\ pc = "Returned"
  /\ Len(input.order.Lines) = 2
  /\ output.tag = "Right"
  /\ ResultBased.tag = "Right"
  /\ Len(output.right) = 3
  /\ Less(Zero, output.right[3].AmountToBill)

=============================================================================
